---- MODULE Spec2Model ----
(***************************************************************************)
(* Safety-stock calculation engine of hongquyngo/safety-stock              *)
(* (utils/safety_stock/calculations.py) together with the part of the      *)
(* Streamlit form that calls it (pages/1_Safety_Stock_Management.py).      *)
(*                                                                         *)
(* Number representation.  Python floats are held as integers counting     *)
(* thousandths (10.0 is 10000, 0.333 is 333); Z-scores are held in         *)
(* hundredths (1.65 is 165), as the table lists them.  Integer-valued      *)
(* parameters (safety_days, lead_time_days, historical_days, ids) are held *)
(* as plain integers.  round(x, 2) therefore maps onto multiples of 10.    *)
(*                                                                         *)
(* Python values are tagged records: N(n) a number, None, Str a string;    *)
(* a keyword map is a function whose DOMAIN is the set of keys  *)
(* present.  A function body evaluates to an outcome: Ret(v) for a         *)
(* returned value or Raise(e) for an exception leaving the body.           *)
(***************************************************************************)
EXTENDS Integers, Sequences, FiniteSets, TLC

VARIABLES
    demand_rows,    \* rows of the daily-demand query for the one scope: age in days ->
                    \* quantity in eighths of a unit
    db_up,          \* whether get_db_engine()/read_sql succeed
    now,            \* the instant datetime.now() returns (index into the modelled instants)
    pc,             \* "idle", or "returned" while a caller holds the outcome of a call
    call,           \* the call of calculate_safety_stock in hand: [method, params]
    ret,            \* what that call handed to its caller
    session_state,  \* st.session_state keys written by the form
    ui,             \* what the last form handler run ended with
    earlier,        \* an earlier call a caller kept: its call, outcome and the data it read
    store,          \* the tables safety_stock_levels, safety_stock_parameters and
                    \* safety_stock_reviews
    handlers,       \* per user, the button handler that is between two database statements
    dialog          \* the dialog the browser session has open, and what it shows

vars == <<demand_rows, db_up, now, pc, call, ret, session_state, ui, earlier, store, handlers,
          dialog>>

-----------------------------------------------------------------------------
(* Bounds of the model *)

\* Largest instant index; instant 0 is exactly midnight
MaxNow == 1
\* Oldest demand row in the table, in days before today
MaxAge == 1
\* Largest quantity of one daily demand row, in whole units
MaxDailyQty == 2
\* The short look-back window (historical_days) callers pass, in days
ShortWindow == 1
\* The long look-back window callers pass, in days
LongWindow == 200

\* Oldest day of a dense demand history
DenseDays == 10

-----------------------------------------------------------------------------
(* Python values and outcomes *)

N(n) == [t |-> "num", v |-> n]
None == [t |-> "None"]
Str == [t |-> "str"]
NaN == [t |-> "nan"]

IsNum(x) == x.t = "num"

Ret(v) == [ok |-> TRUE, val |-> v]
Raise(e) == [ok |-> FALSE, exc |-> e]

\* exceptions: the type, the fixed part of str(e), and the names str(e) quotes
TypeErrorMissing(names) ==
    [type |-> "TypeError", text |-> "missing required positional argument", names |-> names]
TypeErrorOperand ==
    [type |-> "TypeError", text |-> "unsupported operand type(s)", names |-> {}]
ValueErrorMathDomain ==
    [type |-> "ValueError", text |-> "math domain error", names |-> {}]
KeyError(k) ==
    [type |-> "KeyError", text |-> "key", names |-> {k}]

\* int, float (NaN included): the operands arithmetic accepts
Numeric(x) == x.t \in {"num", "nan"}

\* bool(x) of a Python value
Truthy(x) == IF IsNum(x) THEN x.v # 0 ELSE x.t \in {"str", "nan"}

\* a function body's outcome together with the demand lookups it made
Returned(v, lk) == [ok |-> TRUE, val |-> v, lookups |-> lk]
Raised(e, lk) == [ok |-> FALSE, exc |-> e, lookups |-> lk]

\* the required parameters a keyword map leaves unbound
Missing(required, p) == required \ DOMAIN p

\* params.get(k, d) / kwargs.get(k, d)
Get(p, k, d) == IF k \in DOMAIN p THEN p[k] ELSE d

-----------------------------------------------------------------------------
(* Arithmetic on scaled integers *)

Abs(n) == IF n < 0 THEN -n ELSE n

\* p / d rounded to the nearest integer, ties to even (round() of Python 3)
RoundHalfEven(p, d) ==
    LET a == Abs(p)
        q == a \div d
        r == a % d
        m == IF 2 * r > d \/ (2 * r = d /\ q % 2 = 1) THEN q + 1 ELSE q
    IN  IF p < 0 THEN -m ELSE m

\* the value left unrounded
Round2_Unrounded(x) == x

\* round(x, 2) of a value in thousandths
Round2(x) == 10 * RoundHalfEven(x, 10)

RECURSIVE ISqrtIn(_, _, _)
ISqrtIn(n, lo, hi) ==
    IF lo >= hi THEN lo
    ELSE LET mid == (lo + hi + 1) \div 2
         IN  IF mid * mid <= n THEN ISqrtIn(n, mid, hi) ELSE ISqrtIn(n, lo, mid - 1)

\* floor of the square root of n >= 0
ISqrt(n) == ISqrtIn(n, 0, IF n < 46340 THEN n ELSE 46340)

\* <<floor(a * b / c), remainder>> without forming a * b, for a, b >= 0, c > 0
RECURSIVE MulDivQR(_, _, _)
MulDivQR(a, b, c) ==
    IF b = 0 THEN <<0, 0>>
    ELSE LET h == MulDivQR(a, b \div 2, c)
             q2 == 2 * h[1] + (2 * h[2]) \div c
             r2 == (2 * h[2]) % c
         IN  IF b % 2 = 0 THEN <<q2, r2>>
             ELSE <<q2 + (a \div c) + (r2 + (a % c)) \div c, (r2 + (a % c)) % c>>

MulDiv(a, b, c) == MulDivQR(a, b, c)[1]

\* z * sqrt(v) rounded to 2 decimals, for a Z-score z in hundredths and a
\* variance v >= 0 in millionths; the result is in thousandths.  Exact: the
\* doubled result in hundredths is floor(sqrt(z^2 * v / 250000))
ZTimesRoot(z, v) == 10 * ((ISqrt(MulDiv(z * z, v, 250000)) + 1) \div 2)

\* the sum of s[lo..hi], by halving the range
RECURSIVE SumRange(_, _, _)
SumRange(s, lo, hi) ==
    IF lo > hi THEN 0
    ELSE IF lo = hi THEN s[lo]
    ELSE LET mid == (lo + hi) \div 2
         IN  SumRange(s, lo, mid) + SumRange(s, mid + 1, hi)

SumSeq(s) == SumRange(s, 1, Len(s))

SumSquares(s) == SumRange([i \in DOMAIN s |-> s[i] * s[i]], 1, Len(s))

Range(s) == {s[i] : i \in DOMAIN s}

SeqMax(s) == CHOOSE m \in Range(s) : \A x \in Range(s) : x <= m
SeqMin(s) == CHOOSE m \in Range(s) : \A x \in Range(s) : m <= x

\* the k-th smallest entry of s, 1 <= k <= Len(s)
KthSmallest(s, k) ==
    CHOOSE v \in Range(s) :
        /\ Cardinality({i \in DOMAIN s : s[i] < v}) < k
        /\ Cardinality({i \in DOMAIN s : s[i] <= v}) >= k

-----------------------------------------------------------------------------
(* Z-score lookup: calculations.py, Z_SCORE_MAP and get_z_score *)

\* the keys of Z_SCORE_MAP in insertion order (thousandths of a percent)
Z_SCORE_KEYS ==
    <<90000, 91000, 92000, 93000, 94000, 95000,
      96000, 97000, 98000, 99000, 99500, 99900>>

\* service level -> Z-score in hundredths
Z_SCORE_MAP ==
    (90000 :> 128) @@ (91000 :> 134) @@ (92000 :> 141) @@ (93000 :> 148) @@
    (94000 :> 156) @@ (95000 :> 165) @@ (96000 :> 175) @@ (97000 :> 188) @@
    (98000 :> 205) @@ (99000 :> 233) @@ (99500 :> 258) @@ (99900 :> 309)

\* the lookup rounding an unlisted level up to the next listed one
ClosestLevel_NextAbove(level) ==
    LET above == {i \in DOMAIN Z_SCORE_KEYS : Z_SCORE_KEYS[i] >= level}
    IN  IF above = {} THEN Z_SCORE_KEYS[Len(Z_SCORE_KEYS)]
        ELSE Z_SCORE_KEYS[CHOOSE i \in above : \A j \in above : i <= j]

\* min(Z_SCORE_MAP.keys(), key=...): the first key, in insertion order, at the
\* least distance
ClosestLevel(level) ==
    LET d(i) == Abs(Z_SCORE_KEYS[i] - level)
        first == CHOOSE i \in DOMAIN Z_SCORE_KEYS :
                    /\ \A j \in DOMAIN Z_SCORE_KEYS : d(i) <= d(j)
                    /\ \A j \in 1..(i - 1) : d(j) > d(i)
    IN  Z_SCORE_KEYS[first]

\* the lookup answering with the 95% entry whatever level is asked
get_z_score_Fixed95(service_level_percent) ==
    IF ~IsNum(service_level_percent)
    THEN Raise(TypeErrorOperand)
    ELSE Ret(Z_SCORE_MAP[95000])

get_z_score(service_level_percent) ==
    IF ~IsNum(service_level_percent)
    THEN Raise(TypeErrorOperand)     \* x - service_level_percent in the key function
    ELSE IF service_level_percent.v \in DOMAIN Z_SCORE_MAP
         THEN Ret(Z_SCORE_MAP[service_level_percent.v])
         ELSE Ret(Z_SCORE_MAP[ClosestLevel(service_level_percent.v)])

-----------------------------------------------------------------------------
(* Historical demand analysis: calculations.py, get_historical_demand *)

\* datetime.now() has a zero time of day only at instant 0
AtMidnight(t) == t = 0

\* datetime.now().month: instant 0 lies in June, the later ones in November
Month(t) == IF t < 1 THEN 6 ELSE 11

\* the fixed dictionary of the "no data" and the "except" returns
EmptyStats ==
    [avg_daily_demand |-> N(0), std_deviation |-> N(0), max_demand |-> N(0),
     min_demand |-> N(0), coefficient_variation |-> N(0), data_points |-> N(0)]

\* pd.read_sql of the daily-demand query: the rows of product 1 sold by
\* entity 1 (all to buyer 1) that are at most days_back days old
read_sql(rows, product_id, entity_id, customer_id, days_back) ==
    IF /\ product_id = N(1)
       /\ entity_id = N(1)
       /\ (Truthy(customer_id) => customer_id = N(1))
       /\ IsNum(days_back)
    THEN [a \in {b \in DOMAIN rows : b <= days_back.v} |-> rows[a]]
    ELSE << >>

\* df.reindex(date_range, fill_value=0): date_range runs from now - days_back
\* to now in steps of one day and keeps the time of day of now, while the
\* index of df holds dates at 00:00; a label matches only at midnight
Reindex(df, days_back, t) ==
    [i \in 1..(days_back + 1) |->
        LET age == days_back + 1 - i
        IN  IF AtMidnight(t) /\ age \in DOMAIN df THEN df[age] ELSE 0]

\* 4 * Series.quantile(k / 4) with linear interpolation
Quantile4(s, k) ==
    LET pos4 == (Len(s) - 1) * k
        lo == pos4 \div 4
        fr == pos4 % 4
        a == KthSmallest(s, lo + 1)
        b == IF fr = 0 THEN a ELSE KthSmallest(s, lo + 2)
    IN  4 * a + fr * (b - a)

\* the IQR filter with the upper fence only
RemoveOutliers_UpperFenceOnly(s) ==
    LET Q1 == Quantile4(s, 1)
        Q3 == Quantile4(s, 3)
        upper_bound == 2 * Q3 + 3 * (Q3 - Q1)
        Keep(x) == 8 * x <= upper_bound
    IN  SelectSeq(s, Keep)

\* the rows kept by the IQR filter (bounds held as 8 * bound)
RemoveOutliers(s) ==
    LET Q1 == Quantile4(s, 1)
        Q3 == Quantile4(s, 3)
        IQR == Q3 - Q1
        lower_bound == 2 * Q1 - 3 * IQR
        upper_bound == 2 * Q3 + 3 * IQR
        Keep(x) == 8 * x >= lower_bound /\ 8 * x <= upper_bound
    IN  SelectSeq(s, Keep)

\* floor(sqrt(4 * 10^8 * p / q)) for p >= 0 and q > 0, formed in base 100 so
\* that no intermediate value leaves 32 bits: with x = 4p/q written as
\* i + d1/10^2 + d2/10^4 + d3/10^6 + d4/10^8 + ..., the root of
\* T = 10^4 i + 10^2 d1 + d2 gives all but the last two digits, which the
\* remainder, d3 and d4 settle
RootOfRatio(p, q) ==
    LET i == (4 * p) \div q
        r0 == (4 * p) % q
        d1 == (100 * r0) \div q
        r1 == (100 * r0) % q
        d2 == (100 * r1) \div q
        r2 == (100 * r1) % q
        d3 == (100 * r2) \div q
        r3 == (100 * r2) % q
        d4 == (100 * r3) \div q
        T == 10000 * i + 100 * d1 + d2
        s0 == ISqrt(T)
        room == 100 * d3 + d4 + 10000 * (T - s0 * s0)
        fits == {t \in 0..99 : 200 * s0 * t + t * t <= room}
    IN  100 * s0 + (CHOOSE t \in fits : \A u \in fits : u <= t)

\* the statistics with cv = std_dev / avg_demand * 100 whatever the mean
Statistics_UnguardedCv(s) ==
    LET cnt == Len(s)
        S == SumSeq(s)
        A == cnt * SumSquares(s) - S * S
        B == cnt * (cnt - 1)
    IN  [avg_daily_demand |-> N(10 * RoundHalfEven(25 * S, 2 * cnt)),
         std_deviation |-> IF cnt < 2 THEN NaN
                           ELSE N(10 * ((ISqrt((625 * A) \div B) + 1) \div 2)),
         max_demand |-> N(125 * SeqMax(s)),
         min_demand |-> N(125 * SeqMin(s)),
         coefficient_variation |->
             IF cnt < 2 \/ S = 0 THEN NaN
             ELSE N(10 * ((RootOfRatio(A * cnt, (cnt - 1) * S * S) + 1) \div 2)),
         data_points |-> N(cnt)]

\* mean, std (ddof = 1), cv, max, min and count of a non-empty series of
\* quantities in eighths of a unit; mean, std and cv are rounded to 2
\* decimals, max and min are reported as they are
Statistics(s) ==
    LET cnt == Len(s)
        S == SumSeq(s)
        A == cnt * SumSquares(s) - S * S
        B == cnt * (cnt - 1)
        std_dev == IF cnt < 2 THEN NaN
                   ELSE N(10 * ((ISqrt((625 * A) \div B) + 1) \div 2))
        cv == IF S > 0
              THEN IF cnt < 2 THEN NaN
                   ELSE N(10 * ((RootOfRatio(A * cnt, (cnt - 1) * S * S) + 1) \div 2))
              ELSE N(0)
    IN  [avg_daily_demand |-> N(10 * RoundHalfEven(25 * S, 2 * cnt)),
         std_deviation |-> std_dev,
         max_demand |-> N(125 * SeqMax(s)),
         min_demand |-> N(125 * SeqMin(s)),
         coefficient_variation |-> cv,
         data_points |-> N(cnt)]

\* get_historical_demand without the "if df.empty" return
get_historical_demand_NoEmptyCheck(product_id, entity_id, customer_id, days_back, exclude_outliers) ==
    IF ~db_up \/ days_back.t = "str"
    THEN EmptyStats
    ELSE LET df == read_sql(demand_rows, product_id, entity_id, customer_id, days_back)
             filled == Reindex(df, days_back.v, now)
             kept == IF exclude_outliers /\ Len(filled) > 10
                     THEN RemoveOutliers(filled) ELSE filled
         IN  Statistics(kept)

get_historical_demand(product_id, entity_id, customer_id, days_back, exclude_outliers) ==
    IF ~db_up \/ days_back.t = "str"
    THEN EmptyStats                                   \* except Exception
    ELSE LET df == read_sql(demand_rows, product_id, entity_id, customer_id, days_back)
         IN  IF DOMAIN df = {}
             THEN EmptyStats                          \* df.empty
             ELSE LET filled == Reindex(df, days_back.v, now)
                      kept == IF exclude_outliers /\ Len(filled) > 10
                              THEN RemoveOutliers(filled) ELSE filled
                  IN  Statistics(kept)

\* one entry of the lookup log
Lookup(product_id, entity_id, customer_id, days_back, exclude_outliers) ==
    [product_id |-> product_id, entity_id |-> entity_id, customer_id |-> customer_id,
     days_back |-> days_back, exclude_outliers |-> exclude_outliers]

-----------------------------------------------------------------------------
(* Calculation methods: calculations.py *)

\* the manual quantity rounded to 2 decimals like the computed ones
calculate_fixed_Rounded(p) ==
    IF Missing({"safety_stock_qty"}, p) # {}
    THEN Raised(TypeErrorMissing(Missing({"safety_stock_qty"}, p)), << >>)
    ELSE Returned([method |-> "FIXED",
                   safety_stock_qty |-> IF IsNum(p.safety_stock_qty)
                                        THEN N(Round2(p.safety_stock_qty.v))
                                        ELSE p.safety_stock_qty,
                   formula_used |-> "Manual Input",
                   calculation_notes |-> "Safety stock quantity manually specified",
                   parameters |-> [manual_qty |-> p.safety_stock_qty]],
                  << >>)

calculate_fixed(p) ==
    IF Missing({"safety_stock_qty"}, p) # {}
    THEN Raised(TypeErrorMissing(Missing({"safety_stock_qty"}, p)), << >>)
    ELSE Returned([method |-> "FIXED",
                   safety_stock_qty |-> p.safety_stock_qty,
                   formula_used |-> "Manual Input",
                   calculation_notes |-> "Safety stock quantity manually specified",
                   parameters |-> [manual_qty |-> p.safety_stock_qty]],
                  << >>)

calculate_days_of_supply(p) ==
    LET required == {"safety_days", "avg_daily_demand"}
        product_id == Get(p, "product_id", None)
        entity_id == Get(p, "entity_id", None)
        customer_id == Get(p, "customer_id", None)
        days_back == Get(p, "historical_days", N(90))
        from_history == p.avg_daily_demand = N(0) /\ Truthy(product_id) /\ Truthy(entity_id)
        lk == IF from_history
              THEN <<Lookup(product_id, entity_id, customer_id, days_back, TRUE)>>
              ELSE << >>
        avg_daily_demand ==
            IF from_history
            THEN get_historical_demand(product_id, entity_id, customer_id,
                                       days_back, TRUE).avg_daily_demand
            ELSE p.avg_daily_demand
        safety_days == p.safety_days
    IN  IF Missing(required, p) # {}
        THEN Raised(TypeErrorMissing(Missing(required, p)), << >>)
        ELSE IF ~(Numeric(safety_days) /\ Numeric(avg_daily_demand))
        THEN Raised(TypeErrorOperand, lk)
        ELSE LET safety_stock_qty ==
                    IF IsNum(safety_days) /\ IsNum(avg_daily_demand)
                    THEN N(Round2(safety_days.v * avg_daily_demand.v))
                    ELSE NaN
             IN  Returned([method |-> "DAYS_OF_SUPPLY",
                           safety_stock_qty |-> safety_stock_qty,
                           formula_used |-> <<"Safety Stock = {} days x {:.2f} units/day",
                                              safety_days, avg_daily_demand>>,
                           calculation_notes |-> <<"Maintains {} days of average demand as safety buffer",
                                                   safety_days>>,
                           parameters |-> [safety_days |-> safety_days,
                                           avg_daily_demand |-> avg_daily_demand]],
                          lk)

calculate_demand_percentage(p) ==
    LET required == {"demand_percentage", "avg_period_demand"}
        period_days == Get(p, "period_days", N(30))
        product_id == Get(p, "product_id", None)
        entity_id == Get(p, "entity_id", None)
        customer_id == Get(p, "customer_id", None)
        days_back == Get(p, "historical_days", N(90))
        from_history == p.avg_period_demand = N(0) /\ Truthy(product_id) /\ Truthy(entity_id)
        lk == IF from_history
              THEN <<Lookup(product_id, entity_id, customer_id, days_back, TRUE)>>
              ELSE << >>
        history_avg == get_historical_demand(product_id, entity_id, customer_id,
                                             days_back, TRUE).avg_daily_demand
        demand_percentage == p.demand_percentage
    IN  IF Missing(required, p) # {}
        THEN Raised(TypeErrorMissing(Missing(required, p)), << >>)
        ELSE IF from_history /\ ~Numeric(period_days)
        THEN Raised(TypeErrorOperand, lk)
        ELSE LET avg_period_demand ==
                    IF from_history
                    THEN N(history_avg.v * period_days.v)
                    ELSE p.avg_period_demand
             IN  IF ~(Numeric(demand_percentage) /\ Numeric(avg_period_demand))
                 THEN Raised(TypeErrorOperand, lk)
                 ELSE Returned(
                        [method |-> "DEMAND_PERCENTAGE",
                         safety_stock_qty |->
                            IF IsNum(demand_percentage) /\ IsNum(avg_period_demand)
                            THEN N(10 * RoundHalfEven(demand_percentage.v * avg_period_demand.v,
                                                      1000000))
                            ELSE NaN,
                         formula_used |-> <<"Safety Stock = {}% x {:.2f} units",
                                            demand_percentage, avg_period_demand>>,
                         calculation_notes |-> <<"Maintains {}% of {}-day demand as buffer",
                                                 demand_percentage, period_days>>,
                         parameters |-> [demand_percentage |-> demand_percentage,
                                         avg_period_demand |-> avg_period_demand,
                                         period_days |-> period_days]],
                        lk)

\* math.sqrt of a whole number, in thousandths
SqrtMilli(n) == ISqrt(n * 1000000)

\* the body of calculate_lead_time_based, given what the aggregator returns
\* for the call's scope and what get_z_score returns for its service level
LeadTimeBasedBody(p, demand_stats, z) ==
    LET required == {"lead_time_days", "service_level_percent"}
        lead_time_days == p.lead_time_days
        service_level_percent == p.service_level_percent
        lead_time_variability == Get(p, "lead_time_variability", N(0))
        product_id == Get(p, "product_id", None)
        entity_id == Get(p, "entity_id", None)
        customer_id == Get(p, "customer_id", None)
        days_back == Get(p, "historical_days", N(90))
        given_std == Get(p, "demand_std_deviation", None)
        given_avg == Get(p, "avg_daily_demand", None)
        from_history == /\ (given_std = None \/ given_avg = None)
                        /\ Truthy(product_id) /\ Truthy(entity_id)
        lk == IF from_history
              THEN <<Lookup(product_id, entity_id, customer_id, days_back, TRUE)>>
              ELSE << >>
        demand_std_deviation ==
            IF from_history /\ given_std = None THEN demand_stats.std_deviation ELSE given_std
        avg_daily_demand ==
            IF from_history /\ given_avg = None THEN demand_stats.avg_daily_demand ELSE given_avg
        Result(qty) ==
            Returned([method |-> "LEAD_TIME_BASED",
                      safety_stock_qty |-> qty,
                      formula_used |->
                          IF lead_time_variability.v > 0 /\ Truthy(avg_daily_demand)
                          THEN <<"SS = {:.2f} x sqrt({} x {:.2f}^2 + {:.2f}^2 x {}^2)",
                                 z.val, lead_time_days, demand_std_deviation,
                                 avg_daily_demand, lead_time_variability>>
                          ELSE <<"SS = {:.2f} x sqrt({}) x {:.2f}",
                                 z.val, lead_time_days, demand_std_deviation>>,
                      calculation_notes |->
                          <<"Statistical safety stock for {}% service level with {} days lead time",
                            service_level_percent, lead_time_days>>,
                      parameters |-> [lead_time_days |-> lead_time_days,
                                      service_level_percent |-> service_level_percent,
                                      z_score |-> z.val,
                                      demand_std_deviation |-> demand_std_deviation,
                                      lead_time_variability |-> lead_time_variability,
                                      avg_daily_demand |-> avg_daily_demand]],
                     lk)
    IN  IF Missing(required, p) # {}
        THEN Raised(TypeErrorMissing(Missing(required, p)), << >>)
        ELSE IF ~z.ok
        THEN Raised(z.exc, lk)
        ELSE IF ~IsNum(lead_time_variability)
        THEN Raised(TypeErrorOperand, lk)             \* lead_time_variability > 0
        ELSE IF lead_time_variability.v > 0 /\ Truthy(avg_daily_demand)
        THEN \* SS = Z x sqrt(LT x sigma_D^2 + D^2 x sigma_LT^2)
             IF ~(Numeric(lead_time_days) /\ Numeric(demand_std_deviation)
                    /\ Numeric(avg_daily_demand))
             THEN Raised(TypeErrorOperand, lk)
             ELSE IF ~(IsNum(lead_time_days) /\ IsNum(demand_std_deviation)
                         /\ IsNum(avg_daily_demand))
             THEN Result(NaN)
             ELSE LET variance_demand ==
                         lead_time_days.v * demand_std_deviation.v * demand_std_deviation.v
                      variance_lead ==
                         avg_daily_demand.v * avg_daily_demand.v
                            * lead_time_variability.v * lead_time_variability.v
                  IN  IF variance_demand + variance_lead < 0
                      THEN Raised(ValueErrorMathDomain, lk)
                      ELSE Result(N(ZTimesRoot(z.val, variance_demand + variance_lead)))
        ELSE \* SS = Z x sqrt(LT) x sigma_D
             IF ~Numeric(lead_time_days)
             THEN Raised(TypeErrorOperand, lk)
             ELSE IF IsNum(lead_time_days) /\ lead_time_days.v < 0
             THEN Raised(ValueErrorMathDomain, lk)
             ELSE IF ~Numeric(demand_std_deviation)
             THEN Raised(TypeErrorOperand, lk)
             ELSE IF ~(IsNum(lead_time_days) /\ IsNum(demand_std_deviation))
             THEN Result(NaN)
             ELSE LET root == ZTimesRoot(z.val, lead_time_days.v * demand_std_deviation.v
                                                    * demand_std_deviation.v)
                  IN  Result(N(IF demand_std_deviation.v < 0 THEN -root ELSE root))

calculate_lead_time_based(p) ==
    LeadTimeBasedBody(p,
                      get_historical_demand(Get(p, "product_id", None),
                                            Get(p, "entity_id", None),
                                            Get(p, "customer_id", None),
                                            Get(p, "historical_days", N(90)), TRUE),
                      get_z_score(p.service_level_percent))

calculate_min_max(p) ==
    LET required == {"min_stock_qty", "max_stock_qty"}
        min_stock_qty == p.min_stock_qty
        max_stock_qty == p.max_stock_qty
    IN  IF Missing(required, p) # {}
        THEN Raised(TypeErrorMissing(Missing(required, p)), << >>)
        ELSE IF ~(Numeric(min_stock_qty) /\ Numeric(max_stock_qty))
        THEN Raised(TypeErrorOperand, << >>)
        ELSE LET reorder_qty == IF IsNum(min_stock_qty) /\ IsNum(max_stock_qty)
                                THEN N(max_stock_qty.v - min_stock_qty.v) ELSE NaN
                 Rounded(x) == IF IsNum(x) THEN N(Round2(x.v)) ELSE NaN
             IN  Returned([method |-> "MIN_MAX",
                           safety_stock_qty |-> Rounded(min_stock_qty),
                           min_stock_qty |-> min_stock_qty,
                           max_stock_qty |-> max_stock_qty,
                           reorder_point |-> min_stock_qty,
                           reorder_qty |-> Rounded(reorder_qty),
                           formula_used |-> <<"Safety Stock = Min Level ({})", min_stock_qty>>,
                           calculation_notes |->
                               <<"Min-Max system: Reorder at {}, order up to {}",
                                 min_stock_qty, max_stock_qty>>,
                           parameters |-> [min_stock_qty |-> min_stock_qty,
                                           max_stock_qty |-> max_stock_qty,
                                           reorder_qty |-> reorder_qty]],
                          << >>)

\* the keyword arguments calculate_statistical does not bind by name
StatisticalNamed ==
    {"product_id", "entity_id", "service_level_percent", "lead_time_days",
     "review_period_days", "historical_days", "seasonality_adjusted"}

\* holding_cost_percent, ordering_cost and peak_months are never supplied in
\* the modelled calls: holding cost 0.2, ordering cost 50, peaks 11, 12, 1
StatisticalBody(p, demand_stats, z, fallback, simpler) ==
    LET required == {"product_id", "entity_id"}
        service_level_percent == Get(p, "service_level_percent", N(95000))
        lead_time_days == Get(p, "lead_time_days", N(7))
        review_period_days == Get(p, "review_period_days", N(7))
        historical_days == Get(p, "historical_days", N(180))
        seasonality_adjusted == Get(p, "seasonality_adjusted", N(0))
        kwargs == [k \in DOMAIN p \ StatisticalNamed |-> p[k]]
        lk == <<Lookup(p.product_id, p.entity_id, Get(kwargs, "customer_id", None),
                       historical_days, TRUE)>>
        \* the except clause; what the fall-back raises leaves the function
        Except == IF fallback.ok THEN Returned(fallback.val, lk \o fallback.lookups)
                  ELSE Raised(fallback.exc, lk \o fallback.lookups)
    IN  IF Missing(required, p) # {}
        THEN Raised(TypeErrorMissing(Missing(required, p)), << >>)
        ELSE IF demand_stats.data_points.v < 30
        THEN IF simpler.ok THEN Returned(simpler.val, lk) ELSE Except
        ELSE IF ~(IsNum(lead_time_days) /\ IsNum(review_period_days)) \/ ~z.ok
        THEN Except
        ELSE LET protection_period == lead_time_days.v + review_period_days.v
                 avg == demand_stats.avg_daily_demand.v
                 std == demand_stats.std_deviation.v
                 seasonality_factor ==        \* in tenths
                     IF Truthy(seasonality_adjusted) /\ Month(now) \in {11, 12, 1}
                     THEN 12 ELSE 10
             IN  IF protection_period < 0
                 THEN Except                  \* math.sqrt(protection_period)
                 ELSE LET qty == (ISqrt(MulDiv(z.val * z.val * seasonality_factor
                                                    * seasonality_factor,
                                                4 * std * std * protection_period,
                                                100000000)) + 1) \div 2
                          \* math.sqrt(2 * annual_demand * 50 / 0.2), to one decimal
                          eoq == IF avg > 0 THEN 100 * ISqrt(avg * 18250) ELSE avg * 30
                      IN  Returned(
                            [method |-> "STATISTICAL",
                             safety_stock_qty |-> N(10 * qty),
                             reorder_point |-> N(avg * protection_period + 10 * qty),
                             reorder_qty |-> N(Round2(eoq)),
                             formula_used |-> <<"SS = {:.2f} x {:.2f} x {:.1f}", z.val,
                                                std * SqrtMilli(protection_period),
                                                seasonality_factor>>,
                             calculation_notes |->
                                 <<"Advanced model with {}-day protection period, {}% service level",
                                   protection_period, service_level_percent,
                                   Truthy(seasonality_adjusted)>>,
                             parameters |->
                                 [service_level_percent |-> service_level_percent,
                                  z_score |-> z.val,
                                  lead_time_days |-> lead_time_days,
                                  review_period_days |-> review_period_days,
                                  protection_period |-> protection_period,
                                  avg_daily_demand |-> demand_stats.avg_daily_demand,
                                  std_deviation |-> demand_stats.std_deviation,
                                  cv |-> demand_stats.coefficient_variation,
                                  seasonality_factor |-> seasonality_factor,
                                  eoq |-> N(Round2(eoq))]],
                            lk)

\* the statistics of the call's scope, as calculate_statistical fetches them
StatisticalDemand(p) ==
    get_historical_demand(p.product_id, p.entity_id, Get(p, "customer_id", None),
                          Get(p, "historical_days", N(180)), TRUE)

\* calculate_lead_time_based(lead_time_days, service_level_percent, ...) as
\* calculate_statistical calls it, with the keyword map rest
StatisticalFallback(p, rest) ==
    calculate_lead_time_based(
        [lead_time_days |-> Get(p, "lead_time_days", N(7)),
         service_level_percent |-> Get(p, "service_level_percent", N(95000))] @@ rest)

calculate_statistical(p) ==
    StatisticalBody(p, StatisticalDemand(p),
                    get_z_score(Get(p, "service_level_percent", N(95000))),
                    \* the fall-back of the except clause
                    StatisticalFallback(p, [k \in DOMAIN p \ StatisticalNamed |-> p[k]]),
                    \* the fall-back for fewer than 30 data points
                    StatisticalFallback(p,
                        [demand_std_deviation |-> StatisticalDemand(p).std_deviation,
                         avg_daily_demand |-> StatisticalDemand(p).avg_daily_demand]))

-----------------------------------------------------------------------------
(* Main calculation router: calculations.py, calculate_safety_stock *)

method_map ==
    {"FIXED", "DAYS_OF_SUPPLY", "DEMAND_PERCENTAGE", "LEAD_TIME_BASED",
     "MIN_MAX", "STATISTICAL"}

\* method_map[method](**params)
Dispatch(method, p) ==
    CASE method = "FIXED" -> calculate_fixed(p)
      [] method = "DAYS_OF_SUPPLY" -> calculate_days_of_supply(p)
      [] method = "DEMAND_PERCENTAGE" -> calculate_demand_percentage(p)
      [] method = "LEAD_TIME_BASED" -> calculate_lead_time_based(p)
      [] method = "MIN_MAX" -> calculate_min_max(p)
      [] method = "STATISTICAL" -> calculate_statistical(p)

\* the dictionary of the two error returns
ErrorResult(method, text, names) ==
    [method |-> method, safety_stock_qty |-> N(0),
     error |-> [text |-> text, names |-> names]]

\* the call without its try/except: an exception leaves the router
Guarded_NoExcept(method, out) ==
    IF out.ok
    THEN [returned |-> TRUE,
          value |-> out.val @@ [calculated_at |-> now],
          lookups |-> out.lookups, dispatched |-> method]
    ELSE [returned |-> FALSE, exc |-> out.exc,
          lookups |-> out.lookups, dispatched |-> method]

\* try: ... except Exception as e: return {..., 'error': str(e)}
Guarded(method, out) ==
    IF out.ok
    THEN [returned |-> TRUE,
          value |-> out.val @@ [calculated_at |-> now],
          lookups |-> out.lookups, dispatched |-> method]
    ELSE [returned |-> TRUE,
          value |-> ErrorResult(method, out.exc.text, out.exc.names),
          lookups |-> out.lookups, dispatched |-> method]

\* the router falling back to the FIXED formula for a method it does not know
calculate_safety_stock_DefaultFixed(method, p) ==
    Guarded(method, Dispatch(IF method \in method_map THEN method ELSE "FIXED", p))

calculate_safety_stock(method, p) ==
    IF method \notin method_map
    THEN [returned |-> TRUE,
          value |-> ErrorResult(method, "Unknown calculation method", {method}),
          lookups |-> << >>, dispatched |-> "none"]
    ELSE Guarded(method, Dispatch(method, p))

-----------------------------------------------------------------------------
(* The calls the model makes: keyword maps drawn from small sets *)

\* marks a key the caller leaves out of the keyword map
Absent == [t |-> "absent"]

MkParams(r) == [k \in {j \in DOMAIN r : r[j] # Absent} |-> r[k]]

\* product_id, entity_id and historical_days: no context, product only, both,
\* both with a short look-back window
Contexts ==
    {<<Absent, Absent, Absent>>, <<N(1), Absent, Absent>>, <<N(1), N(1), Absent>>,
     <<N(1), N(1), N(ShortWindow)>>}

NoContext == <<Absent, Absent, Absent>>

\* the quantity varies without context; one quantity is tried in every context
FixedArgs ==
    {MkParams([safety_stock_qty |-> q, product_id |-> c[1], entity_id |-> c[2]]) :
        q \in {Absent, None, Str, N(-5000), N(0), N(125), N(42000)}, c \in {NoContext}}
    \cup
    {MkParams([safety_stock_qty |-> q, product_id |-> c[1], entity_id |-> c[2]]) :
        q \in {N(125)}, c \in Contexts}

DaysOfSupplyParams(d, a, c) ==
    MkParams([safety_days |-> d, avg_daily_demand |-> a, product_id |-> c[1],
              entity_id |-> c[2], historical_days |-> c[3]])

\* every pair of days and demand without context; the demands that can start
\* a look-up in every context
DaysOfSupplyArgs ==
    {DaysOfSupplyParams(d, a, NoContext) :
        d \in {Absent, Str, N(-3), N(0), N(1), N(14)},
        a \in {Absent, None, N(-2000), N(0), N(333), N(10000)}}
    \cup
    {DaysOfSupplyParams(N(14), a, c) : a \in {Absent, N(0), N(10000)}, c \in Contexts}

DemandPercentageParams(d, a, n, c) ==
    MkParams([demand_percentage |-> d, avg_period_demand |-> a, period_days |-> n,
              product_id |-> c[1], entity_id |-> c[2], historical_days |-> c[3]])

DemandPercentageArgs ==
    {DemandPercentageParams(d, a, n, NoContext) :
        d \in {Absent, N(-25000), N(25000)}, a \in {Absent, N(0), N(40000)},
        n \in {Absent, N(7)}}
    \cup
    {DemandPercentageParams(N(25000), a, N(7), c) : a \in {Absent, N(0)}, c \in Contexts}

LeadTimeParams(l, s, d, v, a, c) ==
    MkParams([lead_time_days |-> l, service_level_percent |-> s,
              demand_std_deviation |-> d, lead_time_variability |-> v,
              avg_daily_demand |-> a, product_id |-> c[1], entity_id |-> c[2],
              historical_days |-> c[3]])

\* every pair of lead time and service level with and without lead time
\* variability; every combination of the optional demand figures in every
\* context
LeadTimeArgs ==
    {LeadTimeParams(l, s, N(2000), v, a, NoContext) :
        l \in {Absent, Str, N(-1), N(0), N(2), N(9)},
        s \in {Absent, N(30000), N(95000), N(95300), N(99900), N(150000)},
        v \in {Absent, N(2)}, a \in {Absent, N(5000)}}
    \cup
    {LeadTimeParams(N(9), N(95000), d, v, a, c) :
        d \in {Absent, None, N(0), N(2000)}, v \in {Absent, N(2)},
        a \in {Absent, N(0), N(5000)}, c \in Contexts}

MinMaxArgs ==
    {MkParams([min_stock_qty |-> lo, max_stock_qty |-> hi]) :
        lo \in {Absent, N(-1000), N(10000)}, hi \in {Absent, None, N(5000), N(50000)}}

StatisticalParams(c, s, l, w, x, d) ==
    MkParams([product_id |-> c[1], entity_id |-> c[2], service_level_percent |-> s,
              lead_time_days |-> l, historical_days |-> IF w = Absent THEN c[3] ELSE w,
              seasonality_adjusted |-> x, demand_std_deviation |-> d])

StatisticalArgs ==
    {StatisticalParams(c, s, l, Absent, Absent, Absent) :
        c \in Contexts, s \in {Absent, Str, N(99000)}, l \in {Absent, N(-20), N(9)}}
    \cup
    {StatisticalParams(c, N(99000), N(9), w, x, d) :
        c \in {<<N(1), N(1), Absent>>, <<N(1), N(1), N(ShortWindow)>>},
        w \in {Absent, N(29)}, x \in {Absent, N(1)}, d \in {Absent, N(2000)}}

UnknownMethods == {"BOGUS", "", "fixed"}

UnknownArgs == {MkParams([safety_stock_qty |-> q]) : q \in {Absent, N(42000)}}

-----------------------------------------------------------------------------
(* State machine *)

NoCall == [method |-> "", params |-> << >>]
NoRet == [returned |-> TRUE, value |-> [method |-> ""], lookups |-> << >>,
          dispatched |-> "none"]
\* no earlier call is kept
NoEarlier == [call |-> NoCall]

\* empty tables
NoStore == [levels |-> << >>, parameters |-> << >>, reviews |-> << >>]

\* the two users of the page, neither inside a handler
Users == {"u1", "u2"}
NoHandlers == [u \in Users |-> [at |-> "none"]]

\* no dialog is open
NoDialog == [mode |-> "closed"]

NoSession ==
    [calculated_ss |-> Absent, calculated_rop |-> Absent, temp_demand_data |-> Absent,
     selected_method |-> Absent]

Init ==
    /\ demand_rows = << >>
    /\ db_up = TRUE
    /\ now \in 0..MaxNow
    /\ pc = "idle"
    /\ call = NoCall
    /\ ret = NoRet
    /\ session_state = NoSession
    /\ ui = "idle"
    /\ earlier = NoEarlier
    /\ store = NoStore
    /\ handlers = NoHandlers
    /\ dialog = NoDialog

\* a delivery request of the scope is stored for a day that has none yet
RecordDemand(age, qty) ==
    /\ pc = "idle"
    /\ age \notin DOMAIN demand_rows
    /\ demand_rows' = [a \in DOMAIN demand_rows \cup {age} |->
                          IF a = age THEN qty ELSE demand_rows[a]]
    /\ UNCHANGED <<db_up, now, pc, call, ret, session_state, ui, earlier, store, handlers, dialog>>

DbFails ==
    /\ pc = "idle" /\ db_up
    /\ db_up' = FALSE
    /\ UNCHANGED <<demand_rows, now, pc, call, ret, session_state, ui, earlier, store, handlers, dialog>>

DbRecovers ==
    /\ pc = "idle" /\ ~db_up
    /\ db_up' = TRUE
    /\ UNCHANGED <<demand_rows, now, pc, call, ret, session_state, ui, earlier, store, handlers, dialog>>

Tick ==
    /\ pc = "idle" /\ now < MaxNow
    /\ now' = now + 1
    /\ UNCHANGED <<demand_rows, db_up, pc, call, ret, session_state, ui, earlier, store, handlers, dialog>>

\* a caller invokes calculate_safety_stock(method, **p) and holds the outcome
Calculate(method, p) ==
    /\ pc = "idle"
    /\ pc' = "returned"
    /\ call' = [method |-> method, params |-> p]
    /\ ret' = calculate_safety_stock(method, p)
    /\ UNCHANGED <<demand_rows, db_up, now, session_state, ui, earlier, store, handlers, dialog>>

\* the caller is done with the outcome
Forget ==
    /\ pc # "idle"
    /\ pc' = "idle"
    /\ call' = NoCall
    /\ ret' = NoRet
    /\ UNCHANGED <<demand_rows, db_up, now, session_state, ui, earlier, store, handlers, dialog>>

\* the daily totals the query can return, in eighths of a unit: an eighth,
\* and the whole quantities up to MaxDailyQty
DailyQtys == {1} \cup {8 * q : q \in 1..MaxDailyQty}

Environment ==
    \/ \E age \in 0..MaxAge, qty \in DailyQtys : RecordDemand(age, qty)
    \/ DbFails
    \/ DbRecovers
    \/ Tick

Next ==
    \/ Environment
    \/ \E p \in FixedArgs : Calculate("FIXED", p)
    \/ \E p \in DaysOfSupplyArgs : Calculate("DAYS_OF_SUPPLY", p)
    \/ \E p \in DemandPercentageArgs : Calculate("DEMAND_PERCENTAGE", p)
    \/ \E p \in LeadTimeArgs : Calculate("LEAD_TIME_BASED", p)
    \/ \E p \in MinMaxArgs : Calculate("MIN_MAX", p)
    \/ \E p \in StatisticalArgs : Calculate("STATISTICAL", p)
    \/ \E m \in UnknownMethods, p \in UnknownArgs : Calculate(m, p)
    \/ Forget

Spec == Init /\ [][Next]_vars

-----------------------------------------------------------------------------
(* The form's Calculate buttons: pages/1_Safety_Stock_Management.py,         *)
(* safety_stock_form.  The number inputs hold what their widgets allow:      *)
(* safety days and lead time are at least 1, demand figures at least 0, the  *)
(* service level is a key of Z_SCORE_MAP.                                    *)

\* the body run when a Calculate button is pressed, given the engine's answer
AfterCalculate(params, answer) ==
    LET result == answer.value
    IN  /\ call' = [method |-> result.method, params |-> params]
        /\ ret' = answer
        /\ IF "error" \notin DOMAIN result
           THEN IF "reorder_point" \in DOMAIN result
                THEN /\ session_state' = [session_state EXCEPT
                                              !.calculated_ss = result.safety_stock_qty,
                                              !.calculated_rop = result.reorder_point]
                     /\ ui' = "success"
                ELSE \* result['reorder_point'] raises after calculated_ss is stored
                     /\ session_state' = [session_state EXCEPT
                                              !.calculated_ss = result.safety_stock_qty]
                     /\ ui' = "KeyError"
           ELSE /\ session_state' = session_state
                /\ ui' = "error"
        /\ UNCHANGED <<demand_rows, db_up, now, pc, earlier, store, handlers, dialog>>

FormCalculateDaysOfSupply(safety_days, avg_daily_demand, lead_time_days) ==
    LET params == [safety_days |-> N(safety_days),
                   avg_daily_demand |-> N(avg_daily_demand),
                   lead_time_days |-> N(lead_time_days)]
    IN  /\ pc = "idle"
        /\ AfterCalculate(params, calculate_safety_stock("DAYS_OF_SUPPLY", params))

FormCalculateLeadTimeBased(lead_time_days, service_level_percent, demand_std_deviation, avg_daily_demand) ==
    LET params == [lead_time_days |-> N(lead_time_days),
                   service_level_percent |-> N(service_level_percent),
                   demand_std_deviation |-> N(demand_std_deviation),
                   avg_daily_demand |-> N(avg_daily_demand)]
    IN  /\ pc = "idle"
        /\ AfterCalculate(params, calculate_safety_stock("LEAD_TIME_BASED", params))

\* the Cancel button clears the temporary keys
FormCancel ==
    /\ pc = "idle"
    /\ session_state' = NoSession
    /\ ui' = "idle"
    /\ call' = NoCall
    /\ ret' = NoRet
    /\ UNCHANGED <<demand_rows, db_up, now, pc, earlier, store, handlers, dialog>>

FormNext ==
    \/ Environment
    \/ \E d \in {1, 14}, a \in {0, 333, 10000}, l \in {1, 7} :
            FormCalculateDaysOfSupply(d, a, l)
    \/ \E l \in {1, 7, 9}, s \in {90000, 95000, 99900}, d \in {0, 2000}, a \in {0, 5000} :
            FormCalculateLeadTimeBased(l, s, d, a)
    \/ FormCancel

FormSpec == Init /\ [][FormNext]_vars

-----------------------------------------------------------------------------
(* The engine's other entry points, called on their own: get_z_score,        *)
(* get_historical_demand and recommend_method.  Their callers are            *)
(* calculate_*, batch_calculate and the pages.                               *)

\* what a direct call hands back: the value, or the exception leaving it
Direct(out) ==
    IF out.ok
    THEN [returned |-> TRUE, value |-> out.val, lookups |-> << >>, dispatched |-> "none"]
    ELSE [returned |-> FALSE, exc |-> out.exc, lookups |-> << >>, dispatched |-> "none"]

\* the service levels asked for: the listed ones, levels between two listed
\* ones (90.5, 95.5 and 99.25 are equally far from both), levels beyond the
\* ends of the table, and a string
ServiceLevels ==
    {N(Z_SCORE_KEYS[i]) : i \in DOMAIN Z_SCORE_KEYS}
        \cup {N(30000), N(90500), N(95300), N(95500), N(96800), N(99250), N(150000), Str}

\* a caller invokes get_z_score(service_level_percent)
ZScore(service_level_percent) ==
    /\ pc = "idle"
    /\ pc' = "looked_up"
    /\ call' = [method |-> "get_z_score",
                params |-> [service_level_percent |-> service_level_percent]]
    /\ ret' = Direct(get_z_score(service_level_percent))
    /\ UNCHANGED <<demand_rows, db_up, now, session_state, ui, earlier, store, handlers, dialog>>

\* recommend_method returning the table of three methods: FIXED below 30
\* points; HIGH criticality by 90 points; otherwise by variability
recommend_method_ThreeMethods(demand_variability, lead_time_days, data_availability, criticality) ==
    IF data_availability < 30 THEN "FIXED"
    ELSE IF criticality = "HIGH"
    THEN IF data_availability >= 90 THEN "LEAD_TIME_BASED" ELSE "DAYS_OF_SUPPLY"
    ELSE IF IsNum(demand_variability) /\ demand_variability.v < 20000
    THEN "DAYS_OF_SUPPLY"
    ELSE IF IsNum(demand_variability) /\ demand_variability.v < 50000
    THEN IF lead_time_days > 14 THEN "LEAD_TIME_BASED" ELSE "DAYS_OF_SUPPLY"
    ELSE IF data_availability >= 60 THEN "LEAD_TIME_BASED" ELSE "DAYS_OF_SUPPLY"

\* recommend_method looking at the criticality before the sample count
recommend_method_CriticalityFirst(demand_variability, lead_time_days, data_availability, criticality) ==
    IF criticality = "HIGH"
    THEN IF data_availability >= 180 THEN "STATISTICAL" ELSE "LEAD_TIME_BASED"
    ELSE IF data_availability < 30 THEN "DAYS_OF_SUPPLY"
    ELSE IF IsNum(demand_variability) /\ demand_variability.v < 20000
    THEN "DAYS_OF_SUPPLY"
    ELSE IF IsNum(demand_variability) /\ demand_variability.v < 50000
    THEN IF lead_time_days > 14 THEN "LEAD_TIME_BASED" ELSE "DEMAND_PERCENTAGE"
    ELSE IF data_availability >= 90 THEN "STATISTICAL" ELSE "LEAD_TIME_BASED"

\* demand_variability is a float in thousandths of a percent (NaN compares
\* false with everything); lead_time_days and data_availability are integers
recommend_method(demand_variability, lead_time_days, data_availability, criticality) ==
    IF data_availability < 30 THEN "DAYS_OF_SUPPLY"
    ELSE IF criticality = "HIGH"
    THEN IF data_availability >= 180 THEN "STATISTICAL" ELSE "LEAD_TIME_BASED"
    ELSE IF IsNum(demand_variability) /\ demand_variability.v < 20000
    THEN "DAYS_OF_SUPPLY"
    ELSE IF IsNum(demand_variability) /\ demand_variability.v < 50000
    THEN IF lead_time_days > 14 THEN "LEAD_TIME_BASED" ELSE "DEMAND_PERCENTAGE"
    ELSE IF data_availability >= 90 THEN "STATISTICAL" ELSE "LEAD_TIME_BASED"

\* the product profiles a recommendation is asked for; criticality may be
\* left out and then defaults to 'MEDIUM'
RecommendArgs ==
    LET Profiles ==
            [demand_variability : {N(0), N(19990), N(20000), N(49990), N(50000), N(60000)},
             lead_time_days : {5, 14, 15},
             data_availability : {0, 10, 29, 30, 59, 60, 89, 90, 179, 180}]
    IN  Profiles \cup {q @@ [criticality |-> c] : q \in Profiles, c \in {"HIGH", "MEDIUM", "LOW"}}

\* a caller invokes recommend_method with the keyword map a
Recommend(a) ==
    /\ pc = "idle"
    /\ pc' = "recommended"
    /\ call' = [method |-> "recommend_method", params |-> a]
    /\ ret' = Direct(Ret(recommend_method(a.demand_variability, a.lead_time_days,
                                          a.data_availability,
                                          Get(a, "criticality", "MEDIUM"))))
    /\ UNCHANGED <<demand_rows, db_up, now, session_state, ui, earlier, store, handlers, dialog>>

HelperNext ==
    \/ \E level \in ServiceLevels : ZScore(level)
    \/ \E a \in RecommendArgs : Recommend(a)
    \/ Forget

HelperSpec == Init /\ [][HelperNext]_vars

\* the scopes and windows statistics are asked for: the product with demand
\* rows and one without, with and without the buyer filter, the windows of
\* 0 days, the short one, the default of 90 days and the long one
AnalyzeArgs ==
    [product_id : {N(1), N(2)}, entity_id : {N(1)}, customer_id : {None, N(1)},
     days_back : {N(0), N(ShortWindow), N(90), N(LongWindow)},
     exclude_outliers : BOOLEAN]

\* a caller invokes get_historical_demand with the arguments a
Analyze(a) ==
    /\ pc = "idle"
    /\ pc' = "analyzed"
    /\ call' = [method |-> "get_historical_demand", params |-> a]
    /\ ret' = Direct(Ret(get_historical_demand(a.product_id, a.entity_id, a.customer_id,
                                               a.days_back, a.exclude_outliers)))
    /\ UNCHANGED <<demand_rows, db_up, now, session_state, ui, earlier, store, handlers, dialog>>

AggregatorNext ==
    \/ Environment
    \/ \E a \in AnalyzeArgs : Analyze(a)
    \/ Forget

AggregatorSpec == Init /\ [][AggregatorNext]_vars

-----------------------------------------------------------------------------
(* Dense histories: get_historical_demand over a scope with demand on most *)
(* days, where the quartiles of the zero-filled series are not 0           *)

\* the days without demand of a dense history: none, one or two
Gaps == {Z \in SUBSET (0..DenseDays) : Cardinality(Z) <= 2}

\* a history with 1 unit of demand on every day of the last DenseDays days
\* but the gaps, and one day s with another quantity q
DenseHistories ==
    {[a \in (0..DenseDays) \ Z |-> IF a = s THEN q ELSE 8] :
        Z \in Gaps, s \in 0..DenseDays, q \in {1, 16}}

DenseInit ==
    /\ demand_rows \in DenseHistories
    /\ db_up = TRUE
    /\ now \in 0..MaxNow
    /\ pc = "idle"
    /\ call = NoCall
    /\ ret = NoRet
    /\ session_state = NoSession
    /\ ui = "idle"
    /\ earlier = NoEarlier
    /\ store = NoStore
    /\ handlers = NoHandlers
    /\ dialog = NoDialog

\* windows of 1, 2, 10, 11 and 12 days, with and without the outlier filter
DenseArgs ==
    [product_id : {N(1)}, entity_id : {N(1)}, customer_id : {None},
     days_back : {N(0), N(1), N(DenseDays - 1), N(DenseDays), N(DenseDays + 1)},
     exclude_outliers : BOOLEAN]

DenseNext ==
    \/ Tick
    \/ \E a \in DenseArgs : Analyze(a)
    \/ Forget

DenseSpec == DenseInit /\ [][DenseNext]_vars

-----------------------------------------------------------------------------
(* Repeated calls: a caller keeps the outcome of one call and makes others *)

\* what a call handed back, without the calculated_at stamp of the router
Output(r) ==
    IF ~r.returned THEN [raised |-> r.exc]
    ELSE IF r.dispatched # "none" /\ "calculated_at" \in DOMAIN r.value
    THEN [value |-> [k \in DOMAIN r.value \ {"calculated_at"} |-> r.value[k]]]
    ELSE [value |-> r.value]

\* the caller puts the outcome in hand aside, with the inputs and the
\* database content it was computed from
Remember ==
    /\ pc # "idle"
    /\ pc' = "idle"
    /\ earlier' = [call |-> call, output |-> Output(ret),
                   demand_rows |-> demand_rows, db_up |-> db_up]
    /\ call' = NoCall
    /\ ret' = NoRet
    /\ UNCHANGED <<demand_rows, db_up, now, session_state, ui, store, handlers, dialog>>

\* one or two calls of each entry point
RepeatedCalculations ==
    {MkParams([safety_days |-> N(14), product_id |-> N(1), entity_id |-> N(1),
               historical_days |-> N(ShortWindow)]),
     MkParams([safety_days |-> N(14), avg_daily_demand |-> N(12500)])}

RepeatedAnalyses ==
    [product_id : {N(1)}, entity_id : {N(1)}, customer_id : {None},
     days_back : {N(ShortWindow)}, exclude_outliers : {FALSE}]

RepeatedLevels == {N(95000), N(95300)}

RepeatedProfiles ==
    {[demand_variability |-> N(60000), lead_time_days |-> 5,
      data_availability |-> 10, criticality |-> "MEDIUM"]}

RepeatNext ==
    \/ Environment
    \/ \E p \in RepeatedCalculations : Calculate("DAYS_OF_SUPPLY", p)
    \/ \E a \in RepeatedAnalyses : Analyze(a)
    \/ \E level \in RepeatedLevels : ZScore(level)
    \/ \E a \in RepeatedProfiles : Recommend(a)
    \/ Remember

RepeatSpec == Init /\ [][RepeatNext]_vars

-----------------------------------------------------------------------------
(* Stored rules: utils/safety_stock/crud.py.  store.levels is the table      *)
(* safety_stock_levels (the id of a row is its index), store.parameters the  *)
(* rows of safety_stock_parameters by safety_stock_level_id, store.reviews   *)
(* the table safety_stock_reviews.  The columns kept are the ones the        *)
(* functions below test or the form shows; entity and customer are the same  *)
(* for every row, so a scope is a product.  Each function yields             *)
(* [ok, message, store]: the tuple it returns and the tables it leaves.      *)

\* a string value of a nullable column
Text(s) == [t |-> "str", v |-> s]

updatable_fields ==
    {"safety_stock_qty", "reorder_point", "effective_from", "effective_to", "is_active"}

\* the keys of data that make update_safety_stock turn to the parameters
parameter_triggers ==
    {"calculation_method", "lead_time_days", "safety_days", "service_level_percent",
     "avg_daily_demand"}

param_updatable ==
    {"calculation_method", "lead_time_days", "safety_days", "service_level_percent",
     "avg_daily_demand"}

\* except Exception as e: return False, str(e)
Failed(message, s) == [ok |-> FALSE, message |-> message, store |-> s]

Live(s, id) == id \in DOMAIN s.levels /\ s.levels[id].delete_flag = 0

\* SELECT s.*, ssp.* ... LEFT JOIN ... WHERE s.id = :id AND s.delete_flag = 0
get_safety_stock_by_id(s, id) ==
    IF ~db_up THEN None
    ELSE IF Live(s, id)
    THEN [t |-> "dict", id |-> id] @@ s.levels[id]
            @@ (IF id \in DOMAIN s.parameters THEN s.parameters[id]
                ELSE [k \in param_updatable |-> None])
    ELSE None

\* the row INSERT INTO safety_stock_levels stores for data
LevelRow(data) ==
    [product_id |-> data.product_id,
     safety_stock_qty |-> data.safety_stock_qty,
     reorder_point |-> Get(data, "reorder_point", None),
     effective_from |-> data.effective_from,
     effective_to |-> Get(data, "effective_to", None),
     is_active |-> Get(data, "is_active", 1),
     delete_flag |-> 0]

\* the row INSERT INTO safety_stock_parameters stores for data
ParameterRow(data) ==
    [calculation_method |-> Get(data, "calculation_method", Text("FIXED")),
     lead_time_days |-> Get(data, "lead_time_days", None),
     safety_days |-> Get(data, "safety_days", None),
     service_level_percent |-> Get(data, "service_level_percent", None),
     avg_daily_demand |-> Get(data, "avg_daily_demand", None)]

create_safety_stock(s, data) ==
    IF ~db_up THEN Failed("database error", s)
    ELSE LET safety_stock_id == Len(s.levels) + 1
         IN  [ok |-> TRUE, message |-> ToString(safety_stock_id),
              store |-> [s EXCEPT
                  !.levels = Append(@, LevelRow(data)),
                  !.parameters = IF "calculation_method" \in DOMAIN data
                                 THEN @ @@ (safety_stock_id :> ParameterRow(data))
                                 ELSE @]]

\* the rows of data_list are inserted one by one, none with parameters
RECURSIVE InsertAll(_, _)
InsertAll(levels, data_list) ==
    IF data_list = << >> THEN levels
    ELSE InsertAll(Append(levels, LevelRow(Head(data_list))), Tail(data_list))

bulk_create_safety_stock(s, data_list) ==
    IF ~db_up THEN Failed("database error", s)
    ELSE IF data_list = << >> THEN Failed("No records were created", s)
    ELSE [ok |-> TRUE, message |-> "Successfully created records",
          store |-> [s EXCEPT !.levels = InsertAll(@, data_list)]]

\* update_safety_stock with WHERE id = :id alone
update_safety_stock_AnyRow(s, id, data) ==
    IF updatable_fields \cap DOMAIN data = {} THEN Failed("No fields to update", s)
    ELSE IF ~db_up THEN Failed("database error", s)
    ELSE IF id \notin DOMAIN s.levels THEN Failed("Record not found or already deleted", s)
    ELSE [ok |-> TRUE, message |-> "Safety stock updated successfully",
          store |-> [s EXCEPT
              !.levels[id] = [k \in DOMAIN @ |->
                                 IF k \in updatable_fields \cap DOMAIN data
                                 THEN data[k] ELSE @[k]]]]

update_safety_stock(s, id, data) ==
    IF updatable_fields \cap DOMAIN data = {} THEN Failed("No fields to update", s)
    ELSE IF ~db_up THEN Failed("database error", s)
    ELSE IF ~Live(s, id) THEN Failed("Record not found or already deleted", s)
    ELSE [ok |-> TRUE, message |-> "Safety stock updated successfully",
          store |-> [s EXCEPT
              !.levels[id] = [k \in DOMAIN @ |->
                                 IF k \in updatable_fields \cap DOMAIN data
                                 THEN data[k] ELSE @[k]],
              !.parameters =
                  IF parameter_triggers \cap DOMAIN data # {} /\ id \in DOMAIN @
                  THEN [@ EXCEPT ![id] = [k \in DOMAIN @ |->
                                             IF k \in param_updatable \cap DOMAIN data
                                             THEN data[k] ELSE @[k]]]
                  ELSE @]]

delete_safety_stock(s, id) ==
    IF ~db_up THEN Failed("database error", s)
    ELSE IF ~Live(s, id) THEN Failed("Record not found or already deleted", s)
    ELSE [ok |-> TRUE, message |-> "Safety stock deleted successfully",
          store |-> [s EXCEPT !.levels[id].delete_flag = 1]]

create_safety_stock_review(s, id, review_data) ==
    IF ~db_up THEN Failed("database error", s)
    ELSE [ok |-> TRUE, message |-> "Review created successfully",
          store |-> [s EXCEPT !.reviews = Append(@,
              [safety_stock_level_id |-> id,
               old_safety_stock_qty |-> Get(review_data, "old_safety_stock_qty", None),
               new_safety_stock_qty |-> Get(review_data, "new_safety_stock_qty", None)])]]

-----------------------------------------------------------------------------
(* Callers of the stored-rule functions, one call at a time.                 *)

\* the tables hold at most this many rules
MaxRecords == 2
\* effective dates are the days 1..LastDay
LastDay == 3

Methods == {"FIXED", "DAYS_OF_SUPPLY", "LEAD_TIME_BASED"}

\* data of a new rule: with calculation parameters, or without any
NewRules ==
    LET level == [product_id |-> N(1), safety_stock_qty |-> N(10), effective_from |-> N(1)]
    IN  {level, level @@ [calculation_method |-> Text("DAYS_OF_SUPPLY"), safety_days |-> N(7)]}

\* data of an update: a quantity, calculation parameters, or both
Changes ==
    LET parameters == [calculation_method |-> Text("LEAD_TIME_BASED"),
                       lead_time_days |-> N(5), safety_days |-> None,
                       service_level_percent |-> N(95), avg_daily_demand |-> N(3)]
    IN  {[safety_stock_qty |-> N(20)],
         parameters,
         [safety_stock_qty |-> N(20)] @@ parameters}

Ids == 1..MaxRecords

Returns(fn, id, data, r) ==
    /\ pc = "idle"
    /\ pc' = "returned"
    /\ call' = [fn |-> fn, id |-> id, data |-> data]
    /\ ret' = [ok |-> r.ok, message |-> r.message]
    /\ store' = r.store
    /\ UNCHANGED <<demand_rows, db_up, now, session_state, ui, earlier, handlers, dialog>>

Create(data) ==
    /\ Len(store.levels) < MaxRecords
    /\ Returns("create_safety_stock", 0, data, create_safety_stock(store, data))

BulkCreate(data_list) ==
    /\ Len(store.levels) + Len(data_list) <= MaxRecords
    /\ Returns("bulk_create_safety_stock", 0, data_list,
               bulk_create_safety_stock(store, data_list))

Update(id, data) ==
    Returns("update_safety_stock", id, data, update_safety_stock(store, id, data))

Delete(id) ==
    Returns("delete_safety_stock", id, << >>, delete_safety_stock(store, id))

StoreNext ==
    \/ DbFails
    \/ DbRecovers
    \/ \E data \in NewRules : Create(data)
    \/ \E data \in {d \in NewRules : "calculation_method" \notin DOMAIN d} : BulkCreate(<<data>>)
    \/ \E id \in Ids, data \in Changes : Update(id, data)
    \/ \E id \in Ids : Delete(id)
    \/ Forget

StoreSpec == Init /\ [][StoreNext]_vars

-----------------------------------------------------------------------------
(* Validation before a write: utils/safety_stock/validations.py, and the     *)
(* Save button of the form (page, 772-814).  Quantities, priority and        *)
(* calculation parameters of the data below are the ones the form always     *)
(* sends valid; the dates and the tables decide.                             *)

validate_quantities(data) ==
    /\ Get(data, "safety_stock_qty", None) # None
    /\ data.safety_stock_qty.v >= 0

validate_dates(data) ==
    /\ Get(data, "effective_from", None) # None
    /\ Get(data, "effective_to", None) # None
          => data.effective_to.v > data.effective_from.v

\* the rows the overlap query selects
Overlapping(s, product_id, effective_from, effective_to, exclude_id) ==
    {id \in DOMAIN s.levels :
        LET row == s.levels[id]
        IN  /\ row.product_id = product_id
            /\ row.delete_flag = 0
            /\ row.is_active = 1
            /\ exclude_id # None => id # exclude_id.v
            /\ effective_to # None => row.effective_from.v <= effective_to.v
            /\ \/ row.effective_to = None
               \/ row.effective_to.v >= effective_from.v}

\* has_overlap of check_date_overlap; the query failing is "no overlap"
check_date_overlap(s, product_id, effective_from, effective_to, exclude_id) ==
    IF ~db_up THEN FALSE
    ELSE Overlapping(s, product_id, effective_from, effective_to, exclude_id) # {}

\* validate_entity_product: the entity and the product of the form exist;
\* the query failing is an error
validate_entity_product == db_up

\* is_valid of validate_safety_stock_data
validate_safety_stock_data(s, data, mode, exclude_id) ==
    /\ validate_quantities(data)
    /\ validate_dates(data)
    /\ mode = "create" => validate_entity_product
    /\ ~check_date_overlap(s, data.product_id, data.effective_from,
                           Get(data, "effective_to", None), exclude_id)

\* what the form sends on Save: a rule of the one scope with its dates
SaveData ==
    {[product_id |-> N(1), safety_stock_qty |-> N(10), reorder_point |-> None,
      effective_from |-> N(f), effective_to |-> t, is_active |-> 1,
      calculation_method |-> Text("FIXED")] :
        f \in 1..LastDay, t \in {None} \cup {N(d) : d \in 1..LastDay}}

\* the users whose Save passed validation and has not written yet
Validated == {u \in Users : handlers[u].at = "save_validated"}

\* Save, up to the end of validate_safety_stock_data
SaveValidate(u, mode, record_id, data) ==
    /\ handlers[u].at = "none"
    /\ mode = "add" => /\ record_id = None
                       /\ Len(store.levels)
                            + Cardinality({v \in Validated : handlers[v].mode = "add"})
                              < MaxRecords
    /\ mode = "edit" => /\ record_id # None
                        /\ Live(store, record_id.v)
    /\ handlers' = [handlers EXCEPT ![u] =
            IF validate_safety_stock_data(store, data, mode,
                                          IF mode = "edit" THEN record_id ELSE None)
            THEN [at |-> "save_validated", mode |-> mode, record_id |-> record_id,
                  data |-> data]
            ELSE [at |-> "none"]]
    /\ UNCHANGED <<demand_rows, db_up, now, pc, call, ret, session_state, ui, earlier, store, dialog>>

\* Save, from the write to the end of the handler
SaveWrite(u) ==
    /\ handlers[u].at = "save_validated"
    /\ LET h == handlers[u]
           r == IF h.mode = "add" THEN create_safety_stock(store, h.data)
                ELSE update_safety_stock(store, h.record_id.v, h.data)
       IN  store' = r.store
    /\ handlers' = [handlers EXCEPT ![u] = [at |-> "none"]]
    /\ UNCHANGED <<demand_rows, db_up, now, pc, call, ret, session_state, ui, earlier, dialog>>

SaveNext ==
    \/ DbFails
    \/ DbRecovers
    \/ \E u \in Users, data \in SaveData : SaveValidate(u, "add", None, data)
    \/ \E u \in Users, id \in Ids, data \in SaveData : SaveValidate(u, "edit", N(id), data)
    \/ \E u \in Users : SaveWrite(u)

SaveSpec == Init /\ [][SaveNext]_vars

-----------------------------------------------------------------------------
(* The review dialog (page, 833-989) next to the Save and Delete buttons of  *)
(* other sessions.  A handler is cut at its database statements.             *)

\* the store holds at most this many reviews
MaxReviews == 2

\* what the form sends on Save here: the open-ended rule, with a quantity
ReviewedRules ==
    {[product_id |-> N(1), safety_stock_qty |-> N(q), reorder_point |-> None,
      effective_from |-> N(1), effective_to |-> None, is_active |-> 1,
      calculation_method |-> Text("FIXED")] : q \in {10, 30}}

\* the quantities a reviewer enters
ReviewedQtys == {N(10), N(20)}

\* the users whose review read the record or stored the review row
Reviewing == {u \in Users : handlers[u].at \in {"review_read", "review_recorded"}}

\* Submit Review: the dialog reruns and reads current_data (840-843)
ReviewRead(u, id, new_safety_stock_qty) ==
    /\ handlers[u].at = "none"
    /\ Len(store.reviews) + Cardinality({v \in Reviewing : handlers[v].at = "review_read"})
          < MaxReviews
    /\ LET current_data == get_safety_stock_by_id(store, id)
       IN  handlers' = [handlers EXCEPT ![u] =
               IF current_data = None THEN [at |-> "none"]
               ELSE [at |-> "review_read", id |-> id,
                     old_qty |-> current_data.safety_stock_qty,
                     new_safety_stock_qty |-> new_safety_stock_qty]]
    /\ UNCHANGED <<demand_rows, db_up, now, pc, call, ret, session_state, ui, earlier, store, dialog>>

\* Submit Review: create_safety_stock_review (970-974)
ReviewRecord(u) ==
    /\ handlers[u].at = "review_read"
    /\ LET h == handlers[u]
           r == create_safety_stock_review(store, h.id,
                    [old_safety_stock_qty |-> h.old_qty,
                     new_safety_stock_qty |-> h.new_safety_stock_qty])
       IN  /\ store' = r.store
           /\ handlers' = [handlers EXCEPT ![u] =
                  IF r.ok THEN [h EXCEPT !.at = "review_recorded"] ELSE [at |-> "none"]]
    /\ UNCHANGED <<demand_rows, db_up, now, pc, call, ret, session_state, ui, earlier, dialog>>

\* Submit Review: the quantity update and "Review submitted successfully!"
\* (976-985)
ReviewApply(u) ==
    /\ handlers[u].at = "review_recorded"
    /\ LET h == handlers[u]
       IN  store' = IF h.new_safety_stock_qty # h.old_qty
                    THEN update_safety_stock(store, h.id,
                             [safety_stock_qty |-> h.new_safety_stock_qty]).store
                    ELSE store
    /\ handlers' = [handlers EXCEPT ![u] = [at |-> "none"]]
    /\ UNCHANGED <<demand_rows, db_up, now, pc, call, ret, session_state, ui, earlier, dialog>>

\* the Delete button of the list (1314-1326)
DeleteBy(u, id) ==
    /\ handlers[u].at = "none"
    /\ store' = delete_safety_stock(store, id).store
    /\ UNCHANGED <<demand_rows, db_up, now, pc, call, ret, session_state, ui, earlier, handlers, dialog>>

ReviewNext ==
    \/ DbFails
    \/ DbRecovers
    \/ \E u \in Users, data \in ReviewedRules : SaveValidate(u, "add", None, data)
    \/ \E u \in Users, id \in Ids, data \in ReviewedRules : SaveValidate(u, "edit", N(id), data)
    \/ \E u \in Users : SaveWrite(u)
    \/ \E u \in Users, id \in Ids, qty \in ReviewedQtys : ReviewRead(u, id, qty)
    \/ \E u \in Users : ReviewRecord(u)
    \/ \E u \in Users : ReviewApply(u)
    \/ \E u \in Users, id \in Ids : DeleteBy(u, id)

ReviewSpec == Init /\ [][ReviewNext]_vars

-----------------------------------------------------------------------------
(* The Add/Edit dialog of one browser session: safety_stock_form (page,      *)
(* 336-830), opened from the Add button and from a row's Edit button.  The   *)
(* dialog variable keeps what the form rendered when it was opened.          *)

\* the products the list and the product selector offer
Products == {1, 2}

\* data of the rules other code stored: per product, a rule with and one
\* without calculation parameters
DialogRules ==
    UNION {LET level == [product_id |-> N(p), safety_stock_qty |-> N(10 * p),
                         effective_from |-> N(1)]
           IN  {level,
                level @@ [calculation_method |-> Text("DAYS_OF_SUPPLY"),
                          safety_days |-> N(7), avg_daily_demand |-> N(p)]} : p \in Products}

\* existing_data when nothing was read
EmptyDict == [t |-> "dict"]

safe_float(value) == IF value = None THEN N(0) ELSE value

suggest_calculation_method(cv_percent, data_points) ==
    IF data_points < 10 THEN "FIXED"
    ELSE IF cv_percent < 20 THEN "DAYS_OF_SUPPLY"
    ELSE IF cv_percent >= 20 /\ data_points >= 30 THEN "LEAD_TIME_BASED"
    ELSE "DAYS_OF_SUPPLY"

get_empty_stats ==
    [t |-> "dict", avg_daily_demand |-> N(0), data_points |-> 0, cv_percent |-> 0,
     suggested_method |-> Text("FIXED")]

\* the answers of the demand query: an average, a cv in percent and a count
\* of delivery dates
DemandAnswers ==
    {[avg_daily_demand |-> N(3), cv_percent |-> c, data_points |-> n] :
        c \in {10, 60}, n \in {0, 12, 40}}

fetch_demand_stats(answer) ==
    IF ~db_up THEN get_empty_stats
    ELSE [t |-> "dict", avg_daily_demand |-> answer.avg_daily_demand,
          data_points |-> answer.data_points, cv_percent |-> answer.cv_percent,
          suggested_method |->
              Text(suggest_calculation_method(answer.cv_percent, answer.data_points))]

\* temp_data and has_auto_data (567-568)
HasAutoData(s) == s.temp_demand_data # Absent /\ s.temp_demand_data.data_points > 0

\* the method tab as the form draws it (546-755) from existing_data and the
\* session keys s
Render(mode, record_id, existing_data, s) ==
    LET current_method ==
            IF s.selected_method # Absent THEN s.selected_method
            ELSE Get(existing_data, "calculation_method", Text("FIXED"))
        opened == [mode |-> mode, record_id |-> record_id, existing_data |-> existing_data,
                   current_method |-> current_method]
    IN  IF current_method \notin {Text(m) : m \in Methods}
        THEN opened @@ [raised |-> "ValueError"]
        ELSE opened @@
             [raised |-> "none",
              has_auto_data |-> HasAutoData(s),
              safety_stock_qty |->
                  IF current_method = Text("FIXED") \/ s.calculated_ss = Absent
                  THEN safe_float(Get(existing_data, "safety_stock_qty", N(0)))
                  ELSE s.calculated_ss,
              avg_daily_demand |->
                  IF current_method = Text("FIXED") THEN None
                  ELSE IF HasAutoData(s) THEN s.temp_demand_data.avg_daily_demand
                  ELSE safe_float(Get(existing_data, "avg_daily_demand", N(0)))]

\* the Add button, or the Edit button of a listed row
OpenForm(mode, record_id) ==
    /\ pc = "idle"
    /\ dialog.mode = "closed"
    /\ mode = "add" => record_id = None
    /\ mode = "edit" => record_id # None /\ Live(store, record_id.v)
    /\ LET cleared == IF mode = "add" THEN NoSession ELSE session_state
           found == IF mode = "edit" THEN get_safety_stock_by_id(store, record_id.v)
                    ELSE None
           existing_data == IF found = None THEN EmptyDict ELSE found
           initialised ==
               IF cleared.selected_method = Absent
               THEN [cleared EXCEPT !.selected_method =
                        Get(existing_data, "calculation_method", Text("FIXED"))]
               ELSE cleared
       IN  IF ~db_up
           THEN \* load_entities / load_products are empty: the form returns
                /\ session_state' = cleared
                /\ dialog' = [mode |-> mode, record_id |-> record_id,
                              raised |-> "Unable to load required data"]
           ELSE /\ session_state' = initialised
                /\ dialog' = Render(mode, record_id, existing_data, initialised)
    /\ UNCHANGED <<demand_rows, db_up, now, pc, call, ret, ui, earlier, store, handlers>>

\* the form is open and drew its tabs
Drawn == dialog.mode # "closed" /\ dialog.raised = "none"

\* Fetch Data (491-513); with data found the run ends in st.rerun(), which
\* closes the dialog
FetchData(answer) ==
    /\ pc = "idle"
    /\ Drawn
    /\ LET stats == fetch_demand_stats(answer)
       IN  /\ session_state' = [session_state EXCEPT
                  !.temp_demand_data = stats,
                  !.selected_method = IF stats.data_points > 0 THEN stats.suggested_method
                                      ELSE @]
           /\ dialog' = IF stats.data_points > 0 THEN NoDialog ELSE dialog
    /\ UNCHANGED <<demand_rows, db_up, now, pc, call, ret, ui, earlier, store, handlers>>

\* Calculate of the DAYS_OF_SUPPLY tab (621-644)
DialogCalculate(safety_days, avg_daily_demand, lead_time_days) ==
    /\ Drawn
    /\ dialog.current_method = Text("DAYS_OF_SUPPLY")
    /\ FormCalculateDaysOfSupply(safety_days, avg_daily_demand, lead_time_days)

\* the dialog is dismissed without a button: no rerun, no key cleared
Dismiss ==
    /\ pc = "idle"
    /\ dialog.mode # "closed"
    /\ dialog' = NoDialog
    /\ UNCHANGED <<demand_rows, db_up, now, pc, call, ret, session_state, ui, earlier, store, handlers>>

\* Cancel (816-824)
DialogCancel ==
    /\ pc = "idle"
    /\ Drawn
    /\ session_state' = NoSession
    /\ dialog' = NoDialog
    /\ UNCHANGED <<demand_rows, db_up, now, pc, call, ret, ui, earlier, store, handlers>>

\* Save (772-814) for product p, with the values the form shows
DialogSave(p) ==
    /\ pc = "idle"
    /\ Drawn
    /\ dialog.mode = "add" => Len(store.levels) < MaxRecords
    /\ dialog.mode = "edit" => dialog.existing_data # EmptyDict
                                 /\ dialog.existing_data.product_id = N(p)
    /\ LET shown == Render(dialog.mode, dialog.record_id, dialog.existing_data,
                           session_state)
           data == [product_id |-> N(p), safety_stock_qty |-> shown.safety_stock_qty,
                    reorder_point |-> None, effective_from |-> N(1),
                    effective_to |-> None, is_active |-> 1,
                    calculation_method |-> shown.current_method]
           is_valid == validate_safety_stock_data(store, data, dialog.mode,
                           IF dialog.mode = "edit" THEN dialog.record_id ELSE None)
           r == IF dialog.mode = "add" THEN create_safety_stock(store, data)
                ELSE update_safety_stock(store, dialog.record_id.v, data)
       IN  IF is_valid /\ r.ok
           THEN /\ store' = r.store
                /\ session_state' = NoSession
                /\ dialog' = NoDialog
           ELSE UNCHANGED <<store, session_state, dialog>>
    /\ UNCHANGED <<demand_rows, db_up, now, pc, call, ret, ui, earlier, handlers>>

DialogNext ==
    \/ DbFails
    \/ DbRecovers
    \/ \E data \in DialogRules : Create(data)
    \/ \E data \in {d \in DialogRules : "calculation_method" \notin DOMAIN d} :
            BulkCreate(<<data>>)
    \/ Forget
    \/ OpenForm("add", None)
    \/ \E id \in Ids : OpenForm("edit", N(id))
    \/ \E answer \in DemandAnswers : FetchData(answer)
    \/ DialogCalculate(14, 10000, 7)
    \/ Dismiss
    \/ DialogCancel
    \/ \E p \in Products : DialogSave(p)

DialogSpec == Init /\ [][DialogNext]_vars

-----------------------------------------------------------------------------
(* Properties *)

Success(result) == "error" \notin DOMAIN result

\* the parameters each method's signature declares without a default
RequiredParameters(method) ==
    CASE method = "FIXED" -> {"safety_stock_qty"}
      [] method = "DAYS_OF_SUPPLY" -> {"safety_days", "avg_daily_demand"}
      [] method = "DEMAND_PERCENTAGE" -> {"demand_percentage", "avg_period_demand"}
      [] method = "LEAD_TIME_BASED" -> {"lead_time_days", "service_level_percent"}
      [] method = "MIN_MAX" -> {"min_stock_qty", "max_stock_qty"}
      [] method = "STATISTICAL" -> {"product_id", "entity_id"}
      [] OTHER -> {}

\* q (thousandths) is z * sqrt(v) rounded to the nearest hundredth, for z in
\* hundredths and v in millionths: with k = q / 10,
\* (2k - 1)^2 <= z^2 * v / 250000 < (2k + 1)^2
NearestHundredth(q, z, v) ==
    LET k == q \div 10
        F == MulDiv(z * z, v, 250000)
    IN  /\ q % 10 = 0
        /\ k >= 0
        /\ (k > 0 => (2 * k - 1) * (2 * k - 1) <= F)
        /\ F < (2 * k + 1) * (2 * k + 1)

\* both product and entity context are given
HasContext(p) ==
    Truthy(Get(p, "product_id", None)) /\ Truthy(Get(p, "entity_id", None))

(* C1: whatever the method string and the keyword map (required fields left
   out, None or a string where a number is expected), calculate_safety_stock
   returns a result dictionary, a success or an error carrying a message, and
   no exception reaches the caller; when a required parameter is missing the
   result is an error whose message names every missing parameter. *)
C1_AlwaysAResult ==
    pc = "returned" =>
        /\ ret.returned
        /\ "safety_stock_qty" \in DOMAIN ret.value
        /\ (~Success(ret.value) => ret.value.error.text # "")
        /\ LET missing == RequiredParameters(call.method) \ DOMAIN call.params
           IN  missing # {} =>
                  /\ ~Success(ret.value)
                  /\ missing \subseteq ret.value.error.names

C1_Witness ==
    /\ pc = "returned"
    /\ call.method = "LEAD_TIME_BASED"
    /\ "lead_time_days" \notin DOMAIN call.params
    /\ "service_level_percent" \in DOMAIN call.params
    /\ ret.returned
    /\ ~Success(ret.value)
    /\ ret.value.error.names = {"lead_time_days"}

(* C2 as claimed: every method other than FIXED, DAYS_OF_SUPPLY and
   LEAD_TIME_BASED gets an error result that names the method, and no formula
   is run for it. *)
C2_OnlyThreeMethods ==
    (pc = "returned" /\ call.method \notin {"FIXED", "DAYS_OF_SUPPLY", "LEAD_TIME_BASED"}) =>
        /\ ret.returned
        /\ ~Success(ret.value)
        /\ call.method \in ret.value.error.names
        /\ ret.dispatched = "none"

(* C2 amended: the router dispatches the six methods FIXED, DAYS_OF_SUPPLY,
   DEMAND_PERCENTAGE, LEAD_TIME_BASED, MIN_MAX and STATISTICAL and no other;
   every other method string gets an error result whose message names the
   method, without an exception and without any formula being run. *)
C2_UnknownMethod ==
    pc = "returned" =>
        IF call.method \in {"FIXED", "DAYS_OF_SUPPLY", "DEMAND_PERCENTAGE",
                            "LEAD_TIME_BASED", "MIN_MAX", "STATISTICAL"}
        THEN ret.dispatched = call.method
        ELSE /\ ret.returned
             /\ ~Success(ret.value)
             /\ ret.value.method = call.method
             /\ ret.value.error.text = "Unknown calculation method"
             /\ call.method \in ret.value.error.names
             /\ ret.dispatched = "none"
             /\ ret.lookups = << >>

C2_Witness ==
    /\ pc = "returned"
    /\ call.method = "BOGUS"
    /\ "safety_stock_qty" \in DOMAIN call.params
    /\ ~Success(ret.value)
    /\ ret.value.error.names = {"BOGUS"}

\* the precondition of C3: lead time > 0, a listed service level, an explicit
\* deviation >= 0
C3_Case ==
    /\ pc = "returned"
    /\ call.method = "LEAD_TIME_BASED"
    /\ {"lead_time_days", "service_level_percent", "demand_std_deviation"}
          \subseteq DOMAIN call.params
    /\ IsNum(call.params.lead_time_days) /\ call.params.lead_time_days.v > 0
    /\ IsNum(call.params.service_level_percent)
    /\ call.params.service_level_percent.v \in DOMAIN Z_SCORE_MAP
    /\ IsNum(call.params.demand_std_deviation) /\ call.params.demand_std_deviation.v >= 0

(* C3 as claimed: in that case the call succeeds with the quantity
   Z(service level) x sqrt(lead_time_days) x demand_std_deviation rounded to 2
   decimals, and the trace carries the Z-score. *)
C3_SimpleFormulaAlways ==
    C3_Case =>
        /\ Success(ret.value)
        /\ ret.value.parameters.z_score = Z_SCORE_MAP[call.params.service_level_percent.v]
        /\ IsNum(ret.value.safety_stock_qty)
        /\ NearestHundredth(ret.value.safety_stock_qty.v,
                            Z_SCORE_MAP[call.params.service_level_percent.v],
                            call.params.lead_time_days.v
                               * call.params.demand_std_deviation.v
                               * call.params.demand_std_deviation.v)

(* C3 amended: in that case the call succeeds and the trace carries the
   Z-score of the table; the quantity is Z x sqrt(lead_time_days) x
   demand_std_deviation rounded to 2 decimals unless a lead_time_variability
   > 0 comes with a non-zero average daily demand (supplied or derived), when
   it is Z x sqrt(lead_time_days x deviation^2 + average^2 x variability^2)
   rounded to 2 decimals. *)
C3_LeadTimeFormula ==
    C3_Case =>
        LET p == call.params
            z == Z_SCORE_MAP[p.service_level_percent.v]
            variability == Get(p, "lead_time_variability", N(0))
            average == ret.value.parameters.avg_daily_demand
            variance_demand == p.lead_time_days.v * p.demand_std_deviation.v
                                  * p.demand_std_deviation.v
        IN  /\ Success(ret.value)
            /\ ret.value.parameters.z_score = z
            /\ IsNum(ret.value.safety_stock_qty)
            /\ IF variability.v > 0 /\ Truthy(average)
               THEN NearestHundredth(ret.value.safety_stock_qty.v, z,
                                     variance_demand
                                        + average.v * average.v
                                            * variability.v * variability.v)
               ELSE NearestHundredth(ret.value.safety_stock_qty.v, z, variance_demand)

C3_Witness ==
    /\ pc = "returned"
    /\ call.method = "LEAD_TIME_BASED"
    /\ call.params = [lead_time_days |-> N(9), service_level_percent |-> N(95000),
                      demand_std_deviation |-> N(2000)]
    /\ Success(ret.value)
    /\ ret.value.parameters.z_score = 165
    /\ ret.value.safety_stock_qty = N(9900)

\* the call is the engine's lead-time formula with a numeric lead time and a
\* numeric service level
LeadTimeCall ==
    /\ call.method = "LEAD_TIME_BASED"
    /\ {"lead_time_days", "service_level_percent"} \subseteq DOMAIN call.params
    /\ IsNum(call.params.lead_time_days)
    /\ IsNum(call.params.service_level_percent)

(* C4: whenever a LEAD_TIME_BASED calculation succeeds with a numeric average
   daily demand, the result holds reorder_point = average daily demand x lead
   time + safety stock, and the form's Calculate handler, which reads that
   field after a success, completes. *)
C4_ReorderPointInResult ==
    (call.method = "LEAD_TIME_BASED" /\ Success(ret.value)
        /\ IsNum(ret.value.parameters.avg_daily_demand)) =>
        /\ "reorder_point" \in DOMAIN ret.value
        /\ ret.value.reorder_point =
              N(ret.value.parameters.avg_daily_demand.v
                    * ret.value.parameters.lead_time_days.v
                + ret.value.safety_stock_qty.v)
        /\ ui \in {"idle", "success"}

(* C5: a LEAD_TIME_BASED call whose lead_time_days is zero or negative gets
   an error result, never a success (here with every other parameter in its
   domain). *)
C5_NonPositiveLeadTimeRejected ==
    (pc = "returned" /\ LeadTimeCall /\ call.params.lead_time_days.v <= 0
        /\ call.params.service_level_percent.v \in DOMAIN Z_SCORE_MAP) =>
        ~Success(ret.value)

(* C6: a LEAD_TIME_BASED call whose service_level_percent lies outside
   [50, 99.9] gets an error result; no quantity is computed from it (here
   with a lead time > 0). *)
C6_ServiceLevelOutOfRangeRejected ==
    (pc = "returned" /\ LeadTimeCall /\ call.params.lead_time_days.v > 0
        /\ (call.params.service_level_percent.v < 50000
              \/ call.params.service_level_percent.v > 99900)) =>
        ~Success(ret.value)

(* C7: every success result, whatever the method and the parameters, has a
   safety-stock quantity >= 0 and, when it has a reorder point, a reorder
   point >= 0. *)
C7_NeverNegative ==
    (pc = "returned" /\ Success(ret.value)) =>
        /\ IsNum(ret.value.safety_stock_qty) => ret.value.safety_stock_qty.v >= 0
        /\ ("reorder_point" \in DOMAIN ret.value /\ IsNum(ret.value.reorder_point)) =>
              ret.value.reorder_point.v >= 0

\* a DAYS_OF_SUPPLY call with safety_days > 0, an explicit average daily
\* demand >= 0 and no product/entity context
C8_Case ==
    /\ pc = "returned"
    /\ call.method = "DAYS_OF_SUPPLY"
    /\ {"safety_days", "avg_daily_demand"} \subseteq DOMAIN call.params
    /\ IsNum(call.params.safety_days) /\ call.params.safety_days.v > 0
    /\ IsNum(call.params.avg_daily_demand) /\ call.params.avg_daily_demand.v >= 0
    /\ ~HasContext(call.params)

(* C8 as claimed: in that case the result is a success whose quantity equals
   safety_days x average daily demand, whose trace holds both inputs, and a
   demand of 0 gives quantity 0. *)
C8_ExactProduct ==
    C8_Case =>
        /\ Success(ret.value)
        /\ ret.value.safety_stock_qty =
              N(call.params.safety_days.v * call.params.avg_daily_demand.v)
        /\ ret.value.parameters.safety_days = call.params.safety_days
        /\ ret.value.parameters.avg_daily_demand = call.params.avg_daily_demand

(* C8 amended: in that case the result is a success whose quantity is
   safety_days x average daily demand rounded to 2 decimals (a whole number of
   hundredths at most half a hundredth away from the product), no history is
   looked up, the trace holds both inputs, and a demand of 0 gives quantity 0. *)
C8_RoundedProduct ==
    C8_Case =>
        /\ Success(ret.value)
        /\ IsNum(ret.value.safety_stock_qty)
        /\ ret.value.safety_stock_qty.v % 10 = 0
        /\ Abs(ret.value.safety_stock_qty.v
                  - call.params.safety_days.v * call.params.avg_daily_demand.v) <= 5
        /\ ret.lookups = << >>
        /\ ret.value.parameters.safety_days = call.params.safety_days
        /\ ret.value.parameters.avg_daily_demand = call.params.avg_daily_demand
        /\ (call.params.avg_daily_demand = N(0) => ret.value.safety_stock_qty = N(0))

C8_Witness ==
    /\ C8_Case
    /\ call.params.safety_days = N(14)
    /\ call.params.avg_daily_demand = N(10000)
    /\ Success(ret.value)
    /\ ret.value.safety_stock_qty = N(140000)

(* C9: a DAYS_OF_SUPPLY call with safety_days > 0 whose average daily demand
   is left out or is exactly 0 succeeds; with product and entity context it asks the aggregator
   once, over 90 days unless the call says otherwise, and uses its average;
   without them it asks nothing and uses 0. *)
C9_DemandFromHistory ==
    (pc = "returned" /\ call.method = "DAYS_OF_SUPPLY"
        /\ "safety_days" \in DOMAIN call.params /\ IsNum(call.params.safety_days)
        /\ call.params.safety_days.v > 0
        /\ ("avg_daily_demand" \notin DOMAIN call.params
              \/ call.params.avg_daily_demand = N(0))) =>
        /\ Success(ret.value)
        /\ IF HasContext(call.params)
           THEN /\ Len(ret.lookups) = 1
                /\ ret.lookups[1].days_back = Get(call.params, "historical_days", N(90))
                /\ ret.value.parameters.avg_daily_demand =
                      get_historical_demand(call.params.product_id, call.params.entity_id,
                                            None, ret.lookups[1].days_back,
                                            TRUE).avg_daily_demand
           ELSE /\ ret.lookups = << >>
                /\ ret.value.parameters.avg_daily_demand = N(0)

(* C10: a LEAD_TIME_BASED call with lead time > 0 and a service level of
   [50, 99.9], without product/entity context, that leaves out the demand
   standard deviation or the average daily demand succeeds with the missing
   values taken as 0; the quantity is 0 when the deviation was left out. *)
C10_MissingDefaultsToZero ==
    (pc = "returned" /\ LeadTimeCall
        /\ call.params.lead_time_days.v > 0
        /\ call.params.service_level_percent.v >= 50000
        /\ call.params.service_level_percent.v <= 99900
        /\ ~HasContext(call.params)
        /\ {"demand_std_deviation", "avg_daily_demand"} \ DOMAIN call.params # {}) =>
        /\ Success(ret.value)
        /\ "demand_std_deviation" \notin DOMAIN call.params =>
              /\ ret.value.parameters.demand_std_deviation = N(0)
              /\ ret.value.safety_stock_qty = N(0)
        /\ "avg_daily_demand" \notin DOMAIN call.params =>
              ret.value.parameters.avg_daily_demand = N(0)

\* the call needed statistics from the aggregator while the database was failing
LookupWhileDown == pc = "returned" /\ ~db_up /\ Len(ret.lookups) > 0

(* C11: when a DAYS_OF_SUPPLY or LEAD_TIME_BASED calculation asks the
   aggregator for statistics and the demand fetch fails, the router returns an
   error result; it does not return a success computed from substituted
   values. *)
C11_FetchFailureIsError ==
    (LookupWhileDown /\ call.method \in {"DAYS_OF_SUPPLY", "LEAD_TIME_BASED"}) =>
        ~Success(ret.value)

(* C12: a FIXED call whose quantity is negative, or is left out, gets an
   error result. *)
C12_FixedRejectsNegativeOrMissing ==
    (pc = "returned" /\ call.method = "FIXED"
        /\ ("safety_stock_qty" \notin DOMAIN call.params
              \/ (IsNum(call.params.safety_stock_qty)
                    /\ call.params.safety_stock_qty.v < 0))) =>
        ~Success(ret.value)

\* a FIXED call with a quantity q >= 0
C13_Case ==
    /\ pc = "returned"
    /\ call.method = "FIXED"
    /\ "safety_stock_qty" \in DOMAIN call.params
    /\ IsNum(call.params.safety_stock_qty)
    /\ call.params.safety_stock_qty.v >= 0

(* C13: a FIXED call with a quantity q >= 0 gets a success result whose
   quantity is exactly q, unrounded, whose formula description is
   "Manual Input", and no demand lookup is made, with or without
   product/entity context. *)
C13_FixedIsPassThrough ==
    C13_Case =>
        /\ Success(ret.value)
        /\ ret.value.safety_stock_qty = call.params.safety_stock_qty
        /\ ret.value.formula_used = "Manual Input"
        /\ ret.lookups = << >>

C13_Witness ==
    /\ C13_Case
    /\ HasContext(call.params)
    /\ call.params.safety_stock_qty = N(125)
    /\ Success(ret.value)
    /\ ret.value.safety_stock_qty = N(125)
    /\ ret.lookups = << >>

\* the rows of the Z-score table as the claim lists them: service level in
\* thousandths of a percent, Z-score in hundredths
ListedZScores ==
    {<<90000, 128>>, <<91000, 134>>, <<92000, 141>>, <<93000, 148>>,
     <<94000, 156>>, <<95000, 165>>, <<96000, 175>>, <<97000, 188>>,
     <<98000, 205>>, <<99000, 233>>, <<99500, 258>>, <<99900, 309>>}

(* C14: get_z_score returns the table value for each of the 12 listed service
   levels; for any other level it returns the value of a listed level at the
   least absolute distance from the request, and of two equally near listed
   levels always the one listed first (the lower one). *)
C14_NearestListedLevel ==
    (pc = "looked_up" /\ IsNum(call.params.service_level_percent)) =>
        LET level == call.params.service_level_percent.v
        IN  /\ ret.returned
            /\ \E row \in ListedZScores :
                  /\ ret.value = row[2]
                  /\ \A other \in ListedZScores :
                        \/ Abs(row[1] - level) < Abs(other[1] - level)
                        \/ (Abs(row[1] - level) = Abs(other[1] - level)
                              /\ row[1] <= other[1])

C14_Witness ==
    /\ pc = "looked_up"
    /\ call.params.service_level_percent = N(95300)
    /\ ret.returned
    /\ ret.value = 165

\* the criticality a recommendation call runs with
Criticality == Get(call.params, "criticality", "MEDIUM")

(* C19: recommend_method returns FIXED whenever the sample count is below 30,
   for every coefficient of variation, lead time and criticality. *)
C19_InsufficientDataGivesFixed ==
    (pc = "recommended" /\ call.params.data_availability < 30) =>
        ret.value = "FIXED"

(* C20 as claimed: with at least 30 samples, HIGH criticality gives
   LEAD_TIME_BASED from 90 samples on and DAYS_OF_SUPPLY below; otherwise
   cv < 20 gives DAYS_OF_SUPPLY, 20 <= cv < 50 gives LEAD_TIME_BASED for a
   lead time above 14 days and DAYS_OF_SUPPLY else, cv >= 50 gives
   LEAD_TIME_BASED from 60 samples on and DAYS_OF_SUPPLY below; the result is
   always FIXED, DAYS_OF_SUPPLY or LEAD_TIME_BASED. *)
C20_ThreeMethodTable ==
    (pc = "recommended" /\ call.params.data_availability >= 30) =>
        LET cv == call.params.demand_variability.v
            n == call.params.data_availability
            expected ==
                IF Criticality = "HIGH"
                THEN IF n >= 90 THEN "LEAD_TIME_BASED" ELSE "DAYS_OF_SUPPLY"
                ELSE IF cv < 20000 THEN "DAYS_OF_SUPPLY"
                ELSE IF cv < 50000
                THEN IF call.params.lead_time_days > 14
                     THEN "LEAD_TIME_BASED" ELSE "DAYS_OF_SUPPLY"
                ELSE IF n >= 60 THEN "LEAD_TIME_BASED" ELSE "DAYS_OF_SUPPLY"
        IN  /\ ret.value = expected
            /\ ret.value \in {"FIXED", "DAYS_OF_SUPPLY", "LEAD_TIME_BASED"}

(* C20 amended: with at least 30 samples, HIGH criticality gives STATISTICAL
   from 180 samples on and LEAD_TIME_BASED below; otherwise cv < 20 gives
   DAYS_OF_SUPPLY, 20 <= cv < 50 gives LEAD_TIME_BASED for a lead time above
   14 days and DEMAND_PERCENTAGE else, cv >= 50 gives STATISTICAL from 90
   samples on and LEAD_TIME_BASED below; the result is always one of
   DAYS_OF_SUPPLY, DEMAND_PERCENTAGE, LEAD_TIME_BASED and STATISTICAL. *)
C20_SixMethodTable ==
    (pc = "recommended" /\ call.params.data_availability >= 30) =>
        LET cv == call.params.demand_variability.v
            n == call.params.data_availability
            high == Criticality = "HIGH"
        IN  /\ (high /\ n >= 180) => ret.value = "STATISTICAL"
            /\ (high /\ n < 180) => ret.value = "LEAD_TIME_BASED"
            /\ (~high /\ cv < 20000) => ret.value = "DAYS_OF_SUPPLY"
            /\ (~high /\ cv >= 20000 /\ cv < 50000 /\ call.params.lead_time_days > 14) =>
                  ret.value = "LEAD_TIME_BASED"
            /\ (~high /\ cv >= 20000 /\ cv < 50000 /\ call.params.lead_time_days <= 14) =>
                  ret.value = "DEMAND_PERCENTAGE"
            /\ (~high /\ cv >= 50000 /\ n >= 90) => ret.value = "STATISTICAL"
            /\ (~high /\ cv >= 50000 /\ n < 90) => ret.value = "LEAD_TIME_BASED"
            /\ ret.value \in {"DAYS_OF_SUPPLY", "DEMAND_PERCENTAGE",
                              "LEAD_TIME_BASED", "STATISTICAL"}

C20_Witness ==
    /\ pc = "recommended"
    /\ call.params = [demand_variability |-> N(60000), lead_time_days |-> 5,
                      data_availability |-> 90, criticality |-> "MEDIUM"]
    /\ ret.value = "STATISTICAL"

(* C19 amended: recommend_method returns DAYS_OF_SUPPLY whenever the sample
   count is below 30, for every coefficient of variation, lead time and
   criticality: insufficient data overrides variability and criticality. *)
C19_InsufficientDataGivesDaysOfSupply ==
    (pc = "recommended" /\ call.params.data_availability < 30) =>
        ret.value = "DAYS_OF_SUPPLY"

C19_Witness ==
    /\ pc = "recommended"
    /\ call.params = [demand_variability |-> N(60000), lead_time_days |-> 5,
                      data_availability |-> 10, criticality |-> "HIGH"]
    /\ ret.value = "DAYS_OF_SUPPLY"

\* the samples the query fetches for the call in hand: age in days -> quantity
Fetched ==
    read_sql(demand_rows, call.params.product_id, call.params.entity_id,
             call.params.customer_id, call.params.days_back)

\* the sum of the quantities f holds for the ages in D
RECURSIVE SumOfRows(_, _)
SumOfRows(f, D) ==
    IF D = {} THEN 0
    ELSE LET a == CHOOSE x \in D : TRUE
         IN  f[a] + SumOfRows(f, D \ {a})

\* the aggregator has answered a call made while the database was reachable
Analyzed == pc = "analyzed" /\ db_up

(* C15: for a non-empty sample set within a window of days_back > 0 days and
   outlier exclusion off, the statistics are those of the zero-filled series of days_back + 1
   days that holds each date's sample: sample_count is days_back + 1, the
   average is the sum of the samples divided by days_back + 1 (reported to 2
   decimals) and the maximum is the largest sample. *)
C15_ZeroFilledSeries ==
    (Analyzed /\ ~call.params.exclude_outliers /\ call.params.days_back.v > 0
        /\ DOMAIN Fetched # {}) =>
        LET days == call.params.days_back.v + 1
            total == SumOfRows(Fetched, DOMAIN Fetched)
        IN  /\ ret.value.data_points = N(days)
            /\ IsNum(ret.value.avg_daily_demand)
            /\ Abs(ret.value.avg_daily_demand.v * days - 125 * total) <= 5 * days
            /\ \E a \in DOMAIN Fetched : ret.value.max_demand = N(125 * Fetched[a])

(* C16: when the fetched sample collection is empty, the aggregator returns
   average, standard deviation, minimum, maximum and coefficient of variation
   all 0 and sample_count 0, for every days_back, and raises nothing. *)
C16_EmptyFetchGivesZeros ==
    (Analyzed /\ DOMAIN Fetched = {}) =>
        /\ ret.returned
        /\ ret.value.avg_daily_demand = N(0)
        /\ ret.value.std_deviation = N(0)
        /\ ret.value.min_demand = N(0)
        /\ ret.value.max_demand = N(0)
        /\ ret.value.coefficient_variation = N(0)
        /\ ret.value.data_points = N(0)

C16_Witness ==
    /\ Analyzed
    /\ call.params.product_id = N(1)
    /\ call.params.days_back = N(0)
    /\ DOMAIN demand_rows = {1}
    /\ DOMAIN Fetched = {}
    /\ ret.value.data_points = N(0)
    /\ ret.value.avg_daily_demand = N(0)

(* C17: in every statistics result the aggregator returns, a reported
   average_daily_demand of 0 comes with a coefficient of variation of 0,
   never NaN. *)
C17_ZeroAverageZeroVariation ==
    (pc = "analyzed" /\ ret.value.avg_daily_demand = N(0)) =>
        ret.value.coefficient_variation = N(0)

(* C18: in every statistics result with sample_count > 0 (for a window of
   days_back > 0 days) the reported values satisfy
   minimum <= average <= maximum. *)
C18_AverageBetweenMinAndMax ==
    (pc = "analyzed" /\ call.params.days_back.v > 0 /\ ret.value.data_points.v > 0) =>
        /\ IsNum(ret.value.min_demand)
        /\ IsNum(ret.value.avg_daily_demand)
        /\ IsNum(ret.value.max_demand)
        /\ ret.value.min_demand.v <= ret.value.avg_daily_demand.v
        /\ ret.value.avg_daily_demand.v <= ret.value.max_demand.v

\* a keyword the caller left out or passed as None
NotGiven(p, k) == Get(p, k, None) = None

(* C22: for LEAD_TIME_BASED, when demand_std_deviation or avg_daily_demand is
   missing and product and entity are given, the aggregator is called exactly
   once and both the deviation and the average recorded in the parameters of
   the result are the values of that one call. *)
C22_PairFromOneLookup ==
    (pc = "returned" /\ LeadTimeCall /\ HasContext(call.params) /\ Success(ret.value)
        /\ (NotGiven(call.params, "demand_std_deviation")
                \/ NotGiven(call.params, "avg_daily_demand"))) =>
        /\ Len(ret.lookups) = 1
        /\ LET lk == ret.lookups[1]
               demand_stats == get_historical_demand(lk.product_id, lk.entity_id,
                                                     lk.customer_id, lk.days_back,
                                                     lk.exclude_outliers)
           IN  /\ ret.value.parameters.demand_std_deviation = demand_stats.std_deviation
               /\ ret.value.parameters.avg_daily_demand = demand_stats.avg_daily_demand

\* the zero-filled series of the call in hand
Filled == Reindex(Fetched, call.params.days_back.v, now)

\* the days of s within [max(0, Q1 - 1.5 IQR), Q3 + 1.5 IQR], the quartiles
\* taken over s (bounds held as 8 * bound)
WithinFences(s) ==
    LET Q1 == Quantile4(s, 1)
        Q3 == Quantile4(s, 3)
        IQR == Q3 - Q1
        lower == IF 2 * Q1 - 3 * IQR > 0 THEN 2 * Q1 - 3 * IQR ELSE 0
        upper == 2 * Q3 + 3 * IQR
        Inside(x) == lower <= 8 * x /\ 8 * x <= upper
    IN  SelectSeq(s, Inside)

(* C23: outlier removal runs only when exclude_outliers is true and the
   zero-filled series has more than 10 points, and then drops exactly the
   days outside [max(0, Q1 - 1.5 IQR), Q3 + 1.5 IQR], the quartiles taken
   over the zero-filled series; with 10 or fewer points, or with
   exclude_outliers false, no day is dropped: the statistics returned are
   those of the series so retained. *)
C23_OutlierFences ==
    (Analyzed /\ DOMAIN Fetched # {}) =>
        ret.value = Statistics(IF call.params.exclude_outliers /\ Len(Filled) > 10
                               THEN WithinFences(Filled) ELSE Filled)

\* a day without demand and a day of double demand are both dropped from
\* the 11 days of the window
C23_Witness ==
    /\ Analyzed /\ now = 0
    /\ call.params.exclude_outliers
    /\ call.params.days_back = N(DenseDays)
    /\ Cardinality(DOMAIN Fetched) = DenseDays
    /\ \E a \in DOMAIN Fetched : Fetched[a] = 16
    /\ ret.value.data_points = N(DenseDays - 1)
    /\ ret.value.min_demand = N(1000)
    /\ ret.value.max_demand = N(1000)

\* average, standard deviation and coefficient of variation are numbers
FiniteStatistics(stats) ==
    /\ IsNum(stats.avg_daily_demand)
    /\ IsNum(stats.std_deviation)
    /\ IsNum(stats.coefficient_variation)

(* C24 as stated: for any non-empty input, outlier removal retains at least
   two days of the zero-filled series, so sample_count > 0 and the reported
   average, standard deviation and coefficient of variation are finite
   numbers, never NaN, in every statistics result. *)
C24_AlwaysTwoDaysAndFinite ==
    (Analyzed /\ DOMAIN Fetched # {}) =>
        /\ ret.value.data_points.v >= 2
        /\ FiniteStatistics(ret.value)

(* C24, amended: for any non-empty input and a window of days_back >= 1
   days, at least two days of the zero-filled series are retained and the
   reported average, standard deviation and coefficient of variation are
   finite numbers; a window of days_back = 0 has one day, and its standard
   deviation is NaN. *)
C24_TwoDaysAndFiniteFromOneDayBack ==
    (Analyzed /\ DOMAIN Fetched # {}) =>
        IF call.params.days_back.v >= 1
        THEN /\ ret.value.data_points.v >= 2
             /\ FiniteStatistics(ret.value)
        ELSE /\ ret.value.data_points = N(1)
             /\ ret.value.std_deviation = NaN

\* the filter has dropped days of a window with demand, and what is left has
\* a positive mean
C24_Witness ==
    /\ Analyzed /\ DOMAIN Fetched # {}
    /\ call.params.exclude_outliers
    /\ call.params.days_back.v >= 1
    /\ ret.value.data_points.v < Len(Filled)
    /\ ret.value.data_points.v >= 2
    /\ FiniteStatistics(ret.value)
    /\ ret.value.avg_daily_demand.v > 0

(* C21: two calls of the same entry point with identical inputs and
   identical collaborator data (the rows the database holds and whether it
   answers) return identical outputs apart from the calculated_at stamp,
   whatever calls ran in between. *)
C21_SameCallSameOutput ==
    (pc # "idle" /\ earlier # NoEarlier /\ earlier.call = call
        /\ earlier.demand_rows = demand_rows /\ earlier.db_up = db_up) =>
        Output(ret) = earlier.output

\* the last call was fn and its outcome is still held
Called(fn) == pc = "returned" /\ "fn" \in DOMAIN call /\ call.fn = fn

\* C28: after update_safety_stock(id, data) returns success with data naming
\* calculation parameters, get_safety_stock_by_id(id) returns exactly those
\* values, whether or not the record had a parameters row.
C28_UpdatedParametersReadBack ==
    (/\ Called("update_safety_stock")
     /\ ret.ok
     /\ parameter_triggers \cap DOMAIN call.data # {})
        => LET record == get_safety_stock_by_id(store, call.id)
           IN  /\ record # None
               /\ \A k \in parameter_triggers \cap DOMAIN call.data :
                      record[k] = call.data[k]

Deleted(s, id) == id \in DOMAIN s.levels /\ s.levels[id].delete_flag = 1

ParametersOf(s, id) == IF id \in DOMAIN s.parameters THEN s.parameters[id] ELSE None

\* a call of update_safety_stock or delete_safety_stock on id returns in this step
ReturnsOn(id) ==
    /\ pc = "idle" /\ pc' = "returned"
    /\ "fn" \in DOMAIN call'
    /\ call'.fn \in {"update_safety_stock", "delete_safety_stock"}
    /\ call'.id = id

\* what a successful delete leaves: the row, flagged, and invisible to the
\* lookup by id
DeleteLeavesFlaggedRow ==
    (Called("delete_safety_stock") /\ ret.ok)
        => /\ Deleted(store, call.id)
           /\ get_safety_stock_by_id(store, call.id) = None

\* no step changes a deleted row or its parameters row
DeletedRowsKept ==
    \A id \in Ids : Deleted(store, id)
        => /\ Deleted(store', id)
           /\ store'.levels[id] = store.levels[id]
           /\ ParametersOf(store', id) = ParametersOf(store, id)

\* C30 as stated: deletion is soft and final; after a delete the row exists
\* with delete_flag = 1, the lookup by id returns None, and every later
\* update or delete of the id fails with "Record not found or already
\* deleted" and changes nothing stored.
C30_DeletedForGoodWithOneMessage ==
    /\ []DeleteLeavesFlaggedRow
    /\ [][/\ DeletedRowsKept
          /\ \A id \in Ids : (Deleted(store, id) /\ ReturnsOn(id))
                => /\ ~ret'.ok
                   /\ ret'.message = "Record not found or already deleted"
                   /\ store' = store]_vars

\* C30, with the message told apart: every later update or delete of a
\* deleted id fails and changes nothing stored; the message is "Record not
\* found or already deleted" when the statement reaches the database, that
\* is when the database answers and, for an update, data names an updatable
\* field.
C30_DeletedForGood ==
    /\ []DeleteLeavesFlaggedRow
    /\ [][/\ DeletedRowsKept
          /\ \A id \in Ids : (Deleted(store, id) /\ ReturnsOn(id))
                => /\ ~ret'.ok
                   /\ store' = store
                   /\ (/\ db_up
                       /\ \/ call'.fn = "delete_safety_stock"
                          \/ updatable_fields \cap DOMAIN call'.data # {})
                          => ret'.message = "Record not found or already deleted"]_vars

\* an update of a deleted record with a parameters row was refused
C30_Witness ==
    /\ Called("update_safety_stock")
    /\ Deleted(store, call.id)
    /\ call.id \in DOMAIN store.parameters
    /\ ~ret.ok
    /\ ret.message = "Record not found or already deleted"

\* the effective ranges of two rows share a day
RangesOverlap(a, b) ==
    /\ b.effective_to # None => a.effective_from.v <= b.effective_to.v
    /\ a.effective_to # None => b.effective_from.v <= a.effective_to.v

\* C25: after any interleaving of Save operations, including runs where the
\* overlap query fails, no two active, non-deleted records of the same scope
\* have overlapping effective date ranges.
C25_NoOverlapAfterSaves ==
    \A i \in DOMAIN store.levels, j \in DOMAIN store.levels :
        (/\ i < j
         /\ store.levels[i].product_id = store.levels[j].product_id
         /\ store.levels[i].delete_flag = 0 /\ store.levels[j].delete_flag = 0
         /\ store.levels[i].is_active = 1 /\ store.levels[j].is_active = 1)
            => ~RangesOverlap(store.levels[i], store.levels[j])

\* C29: when Submit Review reports success for a changed quantity, the stored
\* safety_stock_qty of the record equals new_safety_stock_qty of the review
\* row, whatever other sessions did meanwhile; no review row is kept for a
\* change that was not applied.
C29_ReviewedQuantityStored ==
    [][\A u \in Users :
          (/\ handlers[u].at = "review_recorded"
           /\ handlers'[u].at = "none"
           /\ handlers[u].new_safety_stock_qty # handlers[u].old_qty)
              => /\ Live(store', handlers[u].id)
                 /\ store'.levels[handlers[u].id].safety_stock_qty
                        = handlers[u].new_safety_stock_qty]_vars

\* C27: whenever the form draws its method selector, the current method is
\* one of FIXED, DAYS_OF_SUPPLY and LEAD_TIME_BASED, for every record
\* create_safety_stock and bulk_create_safety_stock can leave and every
\* method a demand fetch suggests, so the index lookup does not fail.
C27_SelectorMethodKnown ==
    (dialog.mode # "closed" /\ "current_method" \in DOMAIN dialog)
        => /\ dialog.current_method \in {Text(m) : m \in Methods}
           /\ dialog.raised = "none"

\* C26: when the form opens, the selected method and the values it shows come
\* from the record being edited or from the defaults; nothing an earlier
\* dialog left in the session (fetched demand, selected method, calculated
\* quantities) is used.
C26_OpensFromRecordOrDefaults ==
    Drawn
        => /\ dialog.current_method
                = IF Get(dialog.existing_data, "calculation_method", None) = None
                  THEN Text("FIXED")
                  ELSE dialog.existing_data.calculation_method
           /\ dialog.safety_stock_qty
                = safe_float(Get(dialog.existing_data, "safety_stock_qty", N(0)))
           /\ ~dialog.has_auto_data

====
